---- MODULE Spec2Model ----
(***************************************************************************)
(* Risk-control / circuit-breaker engine of open-nof1.ai                   *)
(* (src/src/utils/riskControl.ts, first definition of each function) and   *)
(* the top of the scheduled trading cycle (src/unnamed/part_001).          *)
(*                                                                         *)
(* Time is counted in minutes since an arbitrary epoch that falls on a     *)
(* local midnight.  The store is the libsql database: circuit_breaker_log  *)
(* is the sequence `log` in insertion (rowid) order, the close rows of     *)
(* trades are the sequence `trades`, and the latest account_history row is *)
(* `account`.  The schema is the migrated one (all v2 columns exist); the  *)
(* PRAGMA look-ups are still store operations that can fail.               *)
(***************************************************************************)
EXTENDS Integers, Sequences, FiniteSets, TLC

\* ---------------------------------------------------------------- bounds
MaxTime == 480
MaxFailTime == 240
MaxTrades == 1
MaxLog == 3
MaxSevTime == 1800
MaxSevLog == 8
MaxConcTime == 180
MaxConcLog == 3
MaxTrigTime == 360
MaxTrigTrades == 5
MaxTrigLog == 4
MaxGraceTime == 150
MaxGraceTrades == 2
MaxGraceLog == 4
MaxRiskTime == 120
MaxRiskLog == 2
MaxStopTime == 240
MaxStopLog == 3
MaxStopTrades == 3
MaxResumeTime == 1800
MaxResumeLog == 12
MaxOverlapTime == 120
MaxOverlapLog == 2
MaxOverlapTrades == 1
MaxDecayTime == 1980
MaxDecayLog == 8
MaxDecayTrades == 3

\* ------------------------------------------------------ program constants
Hour == 60
Day == 1440
CooldownMinutes == 360
FallbackResumeMinutes == 120
ManualResetGraceMinutes == 240
AutoRecoveryGraceMinutes == 10
SeverityWindowMinutes == 1440
MaxSeverity == 4
DefaultBalance == 1000
MaxTimeSpanMinutes == 240
ConsecutiveRows == 5

\* SQL NULL / JS undefined, and a resume_at text that Date cannot parse
\* (new Date(text).getTime() is NaN).  Real instants are >= 0.
Null == -1
BadTime == -2

\* ----------------------------------------------------- environment inputs
TickSteps == {60}
PnlChoices == {-160, -60, 10}
AccountChoices == {Null}
SeverityTrades == <<[pnl |-> -40, ts |-> 0]>>
TrigPnl == {-40, -5, 5}
GraceTickSteps == {5}
GracePnl == {-160}
DecayPnl == {-40, 5}

\* Inputs of the risk gate and of the forced-close check.  Amounts are in
\* USDT, leverage is the integer leverage of the exchange, pnlPercent is the
\* leveraged pnl of a position in percent; for these values the IEEE double
\* arithmetic of the code is exact.
RiskAccounts == {Null, 2000}
RiskAmounts == {200, 300, 400, 500, 600}
RiskLeverages == {1, 5, 15, 18}
StopLossLeverages == 1..25
PnlPercents == {-31, -30, -25, -22, -18, -15, -14}
\* COUNT(*) of the symbol's open trades of the last hour
OpenCounts == {2, 3}
\* the existing positions, each with the correlation (in hundredths) that
\* calculateCorrelation returns for it and whether its side is the new side
RiskPositions ==
  { << >>,
    <<[corr |-> 85, sameSide |-> TRUE, n1 |-> 100, n2 |-> 100]>>,
    <<[corr |-> -90, sameSide |-> TRUE, n1 |-> 100, n2 |-> 100]>>,
    <<[corr |-> 85, sameSide |-> FALSE, n1 |-> 100, n2 |-> 100]>>,
    <<[corr |-> 80, sameSide |-> TRUE, n1 |-> 100, n2 |-> 100]>>,
    <<[corr |-> 50, sameSide |-> TRUE, n1 |-> 100, n2 |-> 100],
      [corr |-> 95, sameSide |-> TRUE, n1 |-> 100, n2 |-> 100]>> }
\* n1 and n2 are the numbers of trading_signals rows the store holds for the
\* new symbol and for the position's symbol; corr is the Pearson coefficient
\* (in hundredths) of the return series of the newest rows.  Pairs with a
\* short price history:
SparsePositions ==
  { <<[corr |-> 95, sameSide |-> TRUE, n1 |-> 29, n2 |-> 100]>>,
    <<[corr |-> 95, sameSide |-> TRUE, n1 |-> 150, n2 |-> 29]>>,
    <<[corr |-> -95, sameSide |-> TRUE, n1 |-> 0, n2 |-> 0]>>,
    <<[corr |-> 95, sameSide |-> TRUE, n1 |-> 30, n2 |-> 30]>>,
    <<[corr |-> 95, sameSide |-> TRUE, n1 |-> 29, n2 |-> 29],
      [corr |-> 81, sameSide |-> TRUE, n1 |-> 150, n2 |-> 30]>> }
CorrelationPositions == RiskPositions \cup SparsePositions

\* The trades rows an order's symbol is checked against: symbol, type and
\* timestamp of each row.
Symbols == {"BTC", "ETH"}
TradeRow(symbol, type, ts) == [symbol |-> symbol, type |-> type, ts |-> ts]
TradeTables ==
  { << >>,
    <<TradeRow("BTC", "open", 0), TradeRow("BTC", "open", 0), TradeRow("BTC", "open", 0)>>,
    <<TradeRow("BTC", "open", 60), TradeRow("BTC", "open", 90), TradeRow("BTC", "open", 120)>>,
    <<TradeRow("BTC", "open", 59), TradeRow("BTC", "open", 90), TradeRow("BTC", "open", 120)>>,
    <<TradeRow("BTC", "open", 70), TradeRow("ETH", "open", 80), TradeRow("BTC", "open", 90),
      TradeRow("BTC", "close", 100)>>,
    <<TradeRow("ETH", "open", 0), TradeRow("ETH", "open", 70), TradeRow("ETH", "open", 80),
      TradeRow("ETH", "open", 90), TradeRow("BTC", "close", 100)>> }
\* One open position as the forced-close loop sees it: the leverage, the
\* leveraged pnl in percent (priceChangePercent * leverage), the pnl in USDT
\* that closing it realises, and whether it has been held for
\* MAX_HOLDING_HOURS or longer.
Position(leverage, pnlPercent, pnl, overdue) ==
  [leverage |-> leverage, pnlPercent |-> pnlPercent, pnl |-> pnl, overdue |-> overdue]

\* the open positions a cycle may find on the exchange
CyclePositions ==
  { << >>,
    <<Position(20, -15, -40, FALSE)>>,
    <<Position(3, -20, -10, FALSE), Position(10, -20, -10, FALSE)>>,
    <<Position(10, -22, -20, FALSE), Position(25, -14, -5, TRUE)>>,
    <<Position(5, -26, -40, FALSE), Position(15, -17, -10, FALSE)>> }

\* the queries of the anomaly detectors
RiskOps == {"selRiskBalance", "selOpenCount", "selSignals"}

\* Store operations of one checkCircuitBreaker call, in program order.
StoreOps ==
  { "selActive", "pragmaExpire", "updExpire",
    "pragmaCooldown", "selCooldown",
    "pragmaSeverity", "selSeverity24", "selSeverity72",
    "selManualReset", "selAutoRecovery", "selBalance",
    "selDaily", "selHourly", "selFourHour", "selRecent", "selLast",
    "schemaCheck", "updDemote", "insInsert" }

\* Failure patterns of one call: a working store, one failing statement,
\* or a store that is down for the whole call.
FailChoices == {{}} \cup {{o} : o \in StoreOps} \cup {StoreOps}

\* Failure patterns of one comprehensiveRiskCheck call: a working store, one
\* failing detector query, or a store that is down for the whole call.
RiskFailChoices == {{}} \cup {{o} : o \in RiskOps} \cup {StoreOps \cup RiskOps}

\* stopped is a history variable: the record (rowid) that left the active
\* status last, and the instant at which it did; the table has no such column.
VARIABLES now, log, trades, account, last, calls, stopped

vars == <<now, log, trades, account, last, calls, stopped>>

\* ------------------------------------------------------------ small helpers
Max2(a, b) == IF a >= b THEN a ELSE b
Min2(a, b) == IF a <= b THEN a ELSE b

RECURSIVE Pow2(_)
Pow2(n) == IF n <= 0 THEN 1 ELSE 2 * Pow2(n - 1)

RECURSIVE SumPnl(_, _)
SumPnl(tr, S) ==
  IF S = {} THEN 0
  ELSE LET i == CHOOSE j \in S : TRUE IN tr[i].pnl + SumPnl(tr, S \ {i})

\* ORDER BY <key> DESC LIMIT 1 over the rows with index in S (S non-empty).
\* Two rows never carry the same millisecond timestamp in a sequential run,
\* so rows that tie on the coarse model clock are ordered by rowid.
LatestBy(key(_), S) ==
  CHOOSE i \in S : \A j \in S : key(j) < key(i) \/ (key(j) = key(i) /\ j <= i)

\* Number(row.severity_level) || 1
SeverityOf(row) == IF row.severityLevel = Null \/ row.severityLevel = 0 THEN 1 ELSE row.severityLevel

\* text comparison  column >= ?  of an ISO timestamp column against an ISO
\* argument; an unparsable text is taken to sort after every timestamp
TextGE(col, arg) == col = BadTime \/ (col # Null /\ col >= arg)

ActiveIds(lg) == {i \in DOMAIN lg : lg[i].status = "active"}

\* UPDATE circuit_breaker_log SET status = <to> WHERE status = 'active'
SetActiveTo(lg, to) ==
  [i \in DOMAIN lg |-> IF lg[i].status = "active" THEN [lg[i] EXCEPT !.status = to] ELSE lg[i]]

NoStop == [id |-> 0, at |-> Null]

\* the history after a step at instant t that turns the table lg into lg2
LastStop(lg, lg2, st, t) ==
  LET S == {i \in DOMAIN lg : lg[i].status = "active" /\ lg2[i].status # "active"} IN
  IF S = {} THEN st
  ELSE [id |-> CHOOSE i \in S : \A j \in S : j <= i, at |-> t]

NoStatus == [shouldHalt |-> FALSE, reason |-> "", resumeTime |-> Null,
             severityLevel |-> Null, isInCooldown |-> FALSE, cooldownUntil |-> Null]

Halted(reason, resumeTime, sev) ==
  [NoStatus EXCEPT !.shouldHalt = TRUE, !.reason = reason,
                   !.resumeTime = resumeTime, !.severityLevel = sev]

\* ------------------------------------------------------ getDynamicStopLoss
getDynamicStopLoss_Exclusive(leverage) ==
  IF leverage > 20 THEN -15
  ELSE IF leverage > 15 THEN -18
  ELSE IF leverage > 10 THEN -22
  ELSE IF leverage > 5 THEN -25
  ELSE -30

getDynamicStopLoss_Inverted(leverage) ==
  IF leverage >= 20 THEN -30
  ELSE IF leverage >= 15 THEN -25
  ELSE IF leverage >= 10 THEN -22
  ELSE IF leverage >= 5 THEN -18
  ELSE -15

getDynamicStopLoss(leverage) ==
  IF leverage >= 20 THEN -15
  ELSE IF leverage >= 15 THEN -18
  ELSE IF leverage >= 10 THEN -22
  ELSE IF leverage >= 5 THEN -25
  ELSE -30

\* ------------------------------------------------------- anomaly detectors
NotAnomalous == [isAnomalous |-> FALSE, reason |-> "", severity |-> "low"]
Anomalous(reason, severity) == [isAnomalous |-> TRUE, reason |-> reason, severity |-> severity]

\* positionPercent = (newAmountUsdt / totalBalance) * 100 > pct, with both
\* sides multiplied by totalBalance (> 0)
PositionPercentAbove(amount, bal, pct) == 100 * amount > pct * bal

ExposureAbove_Thousand(amount, bal, leverage) == 100 * amount * leverage > 1000 * bal

\* effectiveExposure = positionPercent * leverage > 200
ExposureAbove(amount, bal, leverage) == 100 * amount * leverage > 200 * bal

detectAnomalousPosition_FailClosed(acc, amount, leverage, F) ==
  LET bal == IF acc = Null THEN DefaultBalance ELSE acc IN
  IF "selRiskBalance" \in F THEN Anomalous("check_failed", "high")
  ELSE IF PositionPercentAbove(amount, bal, 50) THEN Anomalous("position_too_large", "high")
  ELSE IF ExposureAbove(amount, bal, leverage) THEN Anomalous("exposure_too_large", "high")
  ELSE IF leverage >= 15 /\ PositionPercentAbove(amount, bal, 30)
    THEN Anomalous("leverage_position_combo", "medium")
  ELSE NotAnomalous

detectAnomalousPosition_ComboFirst(acc, amount, leverage, F) ==
  LET bal == IF acc = Null THEN DefaultBalance ELSE acc IN
  IF "selRiskBalance" \in F THEN NotAnomalous
  ELSE IF PositionPercentAbove(amount, bal, 50) THEN Anomalous("position_too_large", "high")
  ELSE IF leverage >= 15 /\ PositionPercentAbove(amount, bal, 30)
    THEN Anomalous("leverage_position_combo", "medium")
  ELSE IF ExposureAbove(amount, bal, leverage) THEN Anomalous("exposure_too_large", "high")
  ELSE NotAnomalous

\* lines 71-121; a failing query is caught and reported as not anomalous
detectAnomalousPosition(acc, amount, leverage, F) ==
  LET bal == IF acc = Null THEN DefaultBalance ELSE acc IN
  IF "selRiskBalance" \in F THEN NotAnomalous
  ELSE IF PositionPercentAbove(amount, bal, 50) THEN Anomalous("position_too_large", "high")
  ELSE IF ExposureAbove(amount, bal, leverage) THEN Anomalous("exposure_too_large", "high")
  ELSE IF leverage >= 15 /\ PositionPercentAbove(amount, bal, 30)
    THEN Anomalous("leverage_position_combo", "medium")
  ELSE NotAnomalous

\* SELECT COUNT(*) FROM trades WHERE symbol = ? AND timestamp >= ? AND
\* type = 'open', with the argument now - 1 hour (lines 128-136)
OpenTradeCount_AnyType(rows, symbol, t) ==
  Cardinality({i \in DOMAIN rows : rows[i].symbol = symbol /\ rows[i].ts >= t - Hour})

OpenTradeCount(rows, symbol, t) ==
  Cardinality({i \in DOMAIN rows :
                 rows[i].symbol = symbol /\ rows[i].ts >= t - Hour /\ rows[i].type = "open"})

\* lines 126-154: tradeCount >= 3
detectFrequentTrading(openCount, F) ==
  IF "selOpenCount" \in F THEN NotAnomalous
  ELSE IF openCount >= 3 THEN Anomalous("too_frequent", "medium")
  ELSE NotAnomalous

SignalRowLimit == 100
MinSignalRows == 30
MinReturns == 20

calculateCorrelation_NoRowGate(pos, F) == IF "selSignals" \in F THEN 0 ELSE pos.corr

\* lines 846-902: the newest 100 rows of either symbol; fewer than 30 rows
\* of either give 0, fewer than 20 common returns give 0, a failing query
\* gives 0 (the catch), otherwise the Pearson coefficient of the returns
\* (0 when the denominator is 0)
calculateCorrelation(pos, F) ==
  LET rows1 == Min2(pos.n1, SignalRowLimit)
      rows2 == Min2(pos.n2, SignalRowLimit)
      n == Min2(rows1 - 1, rows2 - 1)
  IN IF "selSignals" \in F THEN 0
     ELSE IF rows1 < MinSignalRows \/ rows2 < MinSignalRows THEN 0
     ELSE IF n < MinReturns THEN 0
     ELSE pos.corr

\* lines 907-936: Math.abs(correlation) > 0.8 && pos.side === newSide for
\* some existing position
detectCorrelationRisk(positions, F) ==
  IF \E k \in DOMAIN positions :
       (calculateCorrelation(positions[k], F) > 80 \/ calculateCorrelation(positions[k], F) < -80)
         /\ positions[k].sameSide
    THEN Anomalous("correlated", "medium")
    ELSE NotAnomalous

\* ------------------------------------------------- getActiveCircuitBreaker
\* Result: found = FALSE is the JS null; log is the table afterwards; branch
\* names the return statement; hit is the set of statements that ran and
\* failed.
NoActive(lg, branch, hit) ==
  [found |-> FALSE, status |-> NoStatus, log |-> lg, branch |-> branch, hit |-> hit]

\* the auto-resume statement: UPDATE ... SET status = 'expired' WHERE status = 'active'
ExpireActive_NoUpdate(lg) == lg

ExpireActive(lg) == SetActiveTo(lg, "expired")

\* new Date(Date.now() + 2 * 60 * 60 * 1000)
FallbackResume_OneHour(t) == t + Hour

FallbackResume(t) == t + FallbackResumeMinutes

ResumeDue_Late(t, resumeAt) == t > resumeAt

\* now >= resumeTime
ResumeDue_Flipped(t, resumeAt) == t <= resumeAt

ResumeDue(t, resumeAt) == t >= resumeAt

ResumeUnparsable_Never(resumeAt) == FALSE

\* isNaN(resumeTime.getTime())
ResumeUnparsable(resumeAt) == resumeAt = BadTime

getActiveCircuitBreaker(lg, t, F) ==
  IF "selActive" \in F THEN NoActive(lg, "error", {"selActive"})
  ELSE IF ActiveIds(lg) = {} THEN NoActive(lg, "none", {})
  ELSE
    LET row == lg[LatestBy(LAMBDA i : lg[i].triggeredAt, ActiveIds(lg))] IN
    IF ResumeUnparsable(row.resumeAt)
      THEN [found |-> TRUE,
            status |-> Halted(row.reason, FallbackResume(t), SeverityOf(row)),
            log |-> lg, branch |-> "bad_resume", hit |-> {}]
    ELSE IF ResumeDue(t, row.resumeAt)
      THEN IF "pragmaExpire" \in F THEN NoActive(lg, "error", {"pragmaExpire"})
           ELSE IF "updExpire" \in F THEN NoActive(lg, "error", {"updExpire"})
           ELSE NoActive(ExpireActive(lg), "expired", {})
    ELSE [found |-> TRUE,
          status |-> Halted(row.reason, row.resumeAt, SeverityOf(row)),
          log |-> lg, branch |-> "active", hit |-> {}]

\* ------------------------------------------------------ isInCooldownPeriod
NotInCooldown(hit) ==
  [inCooldown |-> FALSE, cooldownUntil |-> Null, severityLevel |-> Null, hit |-> hit]

CooldownIds(lg) ==
  {i \in DOMAIN lg : lg[i].status \in {"expired", "manually_reset"} /\ lg[i].cooldownUntil # Null}

isInCooldownPeriod(lg, t, F) ==
  IF "pragmaCooldown" \in F THEN NotInCooldown({"pragmaCooldown"})
  ELSE IF "selCooldown" \in F THEN NotInCooldown({"selCooldown"})
  ELSE IF CooldownIds(lg) = {} THEN NotInCooldown({})
  ELSE
    LET row == lg[LatestBy(LAMBDA i : lg[i].triggeredAt, CooldownIds(lg))] IN
    IF row.cooldownUntil = BadTime THEN NotInCooldown({})
    ELSE IF t < row.cooldownUntil
      THEN [inCooldown |-> TRUE, cooldownUntil |-> row.cooldownUntil,
            severityLevel |-> SeverityOf(row), hit |-> {}]
    ELSE NotInCooldown({})

\* ------------------------------------------------- getCurrentSeverityLevel
RecentIds(lg, since) == {i \in DOMAIN lg : TextGE(lg[i].triggeredAt, since)}

\* MAX(severity_level) over the rows in S, then Number(..) || 1
MaxLevel(lg, S) ==
  LET L == {lg[i].severityLevel : i \in S} \ {Null} IN
  IF L = {} THEN 1
  ELSE LET m == CHOOSE x \in L : \A y \in L : y <= x IN IF m = 0 THEN 1 ELSE m

\* the ladder of lines 481-487 and the fall-through of lines 489-502
SeverityLadder_OffByOne(recentCount, maxLevel) ==
  IF recentCount > 3 THEN Min2(maxLevel + 1, MaxSeverity)
  ELSE IF recentCount >= 2 THEN Min2(maxLevel, 3)
  ELSE IF recentCount >= 1 THEN maxLevel
  ELSE 1

SeverityLadder_NoCap(recentCount, maxLevel) ==
  IF recentCount >= 3 THEN maxLevel + 1
  ELSE IF recentCount >= 2 THEN Min2(maxLevel, 3)
  ELSE IF recentCount >= 1 THEN maxLevel
  ELSE 1

SeverityLadder(recentCount, maxLevel) ==
  IF recentCount >= 3 THEN Min2(maxLevel + 1, MaxSeverity)
  ELSE IF recentCount >= 2 THEN Min2(maxLevel, 3)
  ELSE IF recentCount >= 1 THEN maxLevel
  ELSE 1

getCurrentSeverityLevel(lg, t, F) ==
  IF "pragmaSeverity" \in F THEN [level |-> 1, hit |-> {"pragmaSeverity"}]
  ELSE IF "selSeverity24" \in F THEN [level |-> 1, hit |-> {"selSeverity24"}]
  ELSE
    LET S == RecentIds(lg, t - SeverityWindowMinutes) IN
    IF Cardinality(S) = 0 /\ "selSeverity72" \in F
      THEN [level |-> 1, hit |-> {"selSeverity72"}]
      ELSE [level |-> SeverityLadder(Cardinality(S), MaxLevel(lg, S)), hit |-> {}]

\* ----------------------------------------------------- recordCircuitBreaker
CooldownEnd_AtResume(resumeTime) == resumeTime

\* new Date(resumeTime.getTime() + 6 * 60 * 60 * 1000)
CooldownEnd(resumeTime) == resumeTime + CooldownMinutes

NewRecord(t, reason, resumeTime, sev, type) ==
  [reason |-> reason, triggeredAt |-> t, resumeAt |-> resumeTime, status |-> "active",
   severityLevel |-> sev, cooldownUntil |-> CooldownEnd(resumeTime), triggerType |-> type]

\* step 1: UPDATE ... SET status = 'expired' WHERE status = 'active'
DemoteActive_Skipped(lg) == lg

DemoteActive(lg) == SetActiveTo(lg, "expired")

InsertActive_Replacing(lg, rec) == Append(SetActiveTo(lg, "expired"), rec)

\* step 2: INSERT ... VALUES (?, ?, ?, 'active', ?, ?, ?, ?)
InsertActive(lg, rec) == Append(lg, rec)

\* ensureTableSchema swallows its own failure, and on the migrated schema
\* it changes nothing
ensureTableSchema(F) == IF "schemaCheck" \in F THEN {"schemaCheck"} ELSE {}

\* ok = FALSE is the re-thrown error of lines 276-279
recordCircuitBreaker(lg, t, reason, resumeTime, sev, type, F) ==
  LET h == ensureTableSchema(F) IN
  IF "updDemote" \in F THEN [ok |-> FALSE, log |-> lg, hit |-> h \cup {"updDemote"}]
  ELSE IF "insInsert" \in F
    THEN [ok |-> FALSE, log |-> DemoteActive(lg), hit |-> h \cup {"insInsert"}]
  ELSE [ok |-> TRUE,
        log |-> InsertActive(DemoteActive(lg), NewRecord(t, reason, resumeTime, sev, type)),
        hit |-> h]

\* ------------------------------------------------------ resetCircuitBreaker
ResetActive_EveryRow(lg) == [i \in DOMAIN lg |-> [lg[i] EXCEPT !.status = "manually_reset"]]

\* UPDATE ... SET status = 'manually_reset' WHERE status = 'active'
ResetActive(lg) == SetActiveTo(lg, "manually_reset")

\* line 528: no active row still counts as success
ResetReturn_RowsOnly(rowsAffected) == rowsAffected > 0

ResetReturn(rowsAffected) == TRUE

resetCircuitBreaker(lg, failed) ==
  IF failed THEN [ret |-> FALSE, log |-> lg]
  ELSE [ret |-> ResetReturn(Cardinality(ActiveIds(lg))), log |-> ResetActive(lg)]

\* ------------------------------------------------------ checkCircuitBreaker
\* step 4a: a manually_reset row triggered within the last 4 hours
ManualResetIds(lg, t) ==
  {i \in DOMAIN lg : lg[i].status = "manually_reset"
                     /\ TextGE(lg[i].triggeredAt, t - ManualResetGraceMinutes)}

InManualResetGrace(lg, t) == ManualResetIds(lg, t) # {}

\* step 4b: the latest expired row with resume_at >= now - 10 min, and
\* now - resumeTime < 10 min (false for an unparsable resume_at: NaN)
AutoRecoveryIds(lg, t) ==
  {i \in DOMAIN lg : lg[i].status = "expired" /\ lg[i].resumeAt # Null
                     /\ TextGE(lg[i].resumeAt, t - AutoRecoveryGraceMinutes)}

InAutoRecoveryGrace_FiveMinutes(lg, t) ==
  /\ {i \in DOMAIN lg : lg[i].status = "expired" /\ lg[i].resumeAt # Null
                          /\ TextGE(lg[i].resumeAt, t - 5)} # {}
  /\ LET S == {i \in DOMAIN lg : lg[i].status = "expired" /\ lg[i].resumeAt # Null
                                  /\ TextGE(lg[i].resumeAt, t - 5)}
         row == lg[CHOOSE i \in S : \A j \in S : j <= i]
     IN row.resumeAt # BadTime /\ t - row.resumeAt < 5

InAutoRecoveryGrace(lg, t) ==
  /\ AutoRecoveryIds(lg, t) # {}
  /\ LET row == lg[LatestBy(LAMBDA i : lg[i].triggeredAt, AutoRecoveryIds(lg, t))] IN
       row.resumeAt # BadTime /\ t - row.resumeAt < AutoRecoveryGraceMinutes

\* accountResult.rows[0] ? parseFloat(total_value) : 1000
TotalBalance(acc) == IF acc = Null THEN DefaultBalance ELSE acc

\* local midnight of the day of t
TodayStart(t) == t - (t % Day)

\* SUM(pnl) of the close trades with timestamp >= since (0 when there are none)
PnlSince(tr, since) == SumPnl(tr, {i \in DOMAIN tr : tr[i].ts >= since})

Breached_NonStrict(pnl, bal, basePercent, inCooldown) ==
  200 * pnl <= basePercent * (IF inCooldown THEN 1 ELSE 2) * bal

\* line 629, in halves: inCooldown ? 0.5 : 1.0 (the effective severity level
\* of the call does not enter the expression)
thresholdMultiplier(inCooldown) == IF inCooldown THEN 1 ELSE 2

\* (pnl / totalBalance) * 100 < basePercent * thresholdMultiplier; both
\* sides are multiplied by 2 * totalBalance (> 0) to stay in the integers
Breached(pnl, bal, basePercent, inCooldown) ==
  200 * pnl < basePercent * thresholdMultiplier(inCooldown) * bal

\* ORDER BY timestamp DESC LIMIT 5: the indices of the newest rows
RecentTradeIds(tr) == {i \in DOMAIN tr : i > Len(tr) - ConsecutiveRows}

ConsecutiveLoss_NoSpanGate(tr, t) ==
  /\ Cardinality(RecentTradeIds(tr)) >= ConsecutiveRows
  /\ \A i \in RecentTradeIds(tr) : tr[i].pnl < 0

\* rows.length >= 5, every row a loss, and the oldest of the five rows at
\* most 4 hours before now (lines 748-762)
ConsecutiveLoss(tr, t) ==
  /\ Cardinality(RecentTradeIds(tr)) >= ConsecutiveRows
  /\ \A i \in RecentTradeIds(tr) : tr[i].pnl < 0
  /\ t - tr[Len(tr) - ConsecutiveRows + 1].ts <= MaxTimeSpanMinutes

NoTrigger == [kind |-> "none", type |-> "", base |-> 0, hit |-> {}]
Trigger(type, base) == [kind |-> "trigger", type |-> type, base |-> base, hit |-> {}]
Thrown(op) == [kind |-> "error", type |-> "", base |-> 0, hit |-> {op}]

EvaluateTriggers_SingleFirst(tr, acc, t, inCooldown, F) ==
  LET bal == TotalBalance(acc) IN
  IF "selBalance" \in F THEN Thrown("selBalance")
  ELSE IF "selLast" \in F THEN Thrown("selLast")
  ELSE IF Len(tr) > 0 /\ Breached(tr[Len(tr)].pnl, bal, -3, inCooldown)
    THEN Trigger("single_large_loss", 1 * Hour)
  ELSE IF "selDaily" \in F THEN Thrown("selDaily")
  ELSE IF Breached(PnlSince(tr, TodayStart(t)), bal, -15, inCooldown)
    THEN Trigger("daily_loss", 12 * Hour)
  ELSE IF "selHourly" \in F THEN Thrown("selHourly")
  ELSE IF Breached(PnlSince(tr, t - Hour), bal, -5, inCooldown)
    THEN Trigger("hourly_loss", 2 * Hour)
  ELSE IF "selFourHour" \in F THEN Thrown("selFourHour")
  ELSE IF Breached(PnlSince(tr, t - 4 * Hour), bal, -8, inCooldown)
    THEN Trigger("four_hour_loss", 4 * Hour)
  ELSE IF "selRecent" \in F THEN Thrown("selRecent")
  ELSE IF ConsecutiveLoss(tr, t)
    THEN Trigger("consecutive_loss", 2 * Hour)
  ELSE NoTrigger

\* Lines 618-820: the conditions in program order; the first breached one
\* wins, and a failing query before it throws.
EvaluateTriggers(tr, acc, t, inCooldown, F) ==
  LET bal == TotalBalance(acc) IN
  IF "selBalance" \in F THEN Thrown("selBalance")
  ELSE IF "selDaily" \in F THEN Thrown("selDaily")
  ELSE IF Breached(PnlSince(tr, TodayStart(t)), bal, -15, inCooldown)
    THEN Trigger("daily_loss", 12 * Hour)
  ELSE IF "selHourly" \in F THEN Thrown("selHourly")
  ELSE IF Breached(PnlSince(tr, t - Hour), bal, -5, inCooldown)
    THEN Trigger("hourly_loss", 2 * Hour)
  ELSE IF "selFourHour" \in F THEN Thrown("selFourHour")
  ELSE IF Breached(PnlSince(tr, t - 4 * Hour), bal, -8, inCooldown)
    THEN Trigger("four_hour_loss", 4 * Hour)
  ELSE IF "selRecent" \in F THEN Thrown("selRecent")
  ELSE IF ConsecutiveLoss(tr, t)
    THEN Trigger("consecutive_loss", 2 * Hour)
  ELSE IF "selLast" \in F THEN Thrown("selLast")
  ELSE IF Len(tr) > 0 /\ Breached(tr[Len(tr)].pnl, bal, -3, inCooldown)
    THEN Trigger("single_large_loss", 1 * Hour)
  ELSE NoTrigger

TriggerTypes ==
  {"daily_loss", "hourly_loss", "four_hour_loss", "consecutive_loss", "single_large_loss"}

\* Math.max(currentSeverityLevel, cooldownStatus.severityLevel || 1)
EffectiveSeverity(current, cooldownStatus) ==
  Max2(current, IF cooldownStatus.severityLevel = Null THEN 1 ELSE cooldownStatus.severityLevel)

Duration_NoEscalation(base, sev) == base

\* baseDuration * Math.pow(2, effectiveSeverityLevel - 1)
Duration(base, sev) == base * Pow2(sev - 1)

Returned(ret, lg, path, hit) ==
  [ret |-> ret, log |-> lg, path |-> path, hit |-> hit, raised |-> FALSE]

Swallowed_Halted(lg, hit) ==
  [ret |-> Halted("error", Null, 1), log |-> lg, path |-> "error", hit |-> hit,
   raised |-> FALSE]

Swallowed_Rethrown(lg, hit) ==
  [ret |-> NoStatus, log |-> lg, path |-> "error", hit |-> hit, raised |-> TRUE]

\* The outer catch of lines 837-841: the error is logged, not re-thrown.
Swallowed(lg, hit) == Returned(NoStatus, lg, "error", hit)

\* Steps 2-6 of checkCircuitBreaker, after getActiveCircuitBreaker returned
\* null, left the table as lg and hit the failures h0.
Evaluate(lg, tr, acc, t, F, h0) ==
  LET cooldownStatus == isInCooldownPeriod(lg, t, F)
      current == getCurrentSeverityLevel(lg, t, F)
      sev == EffectiveSeverity(current.level, cooldownStatus)
      h == h0 \cup cooldownStatus.hit \cup current.hit
  IN
  IF "selManualReset" \in F THEN Swallowed(lg, h \cup {"selManualReset"})
  ELSE IF InManualResetGrace(lg, t) THEN Returned(NoStatus, lg, "manual_grace", h)
  ELSE IF "selAutoRecovery" \in F THEN Swallowed(lg, h \cup {"selAutoRecovery"})
  ELSE IF InAutoRecoveryGrace(lg, t) THEN Returned(NoStatus, lg, "auto_grace", h)
  ELSE
    LET trig == EvaluateTriggers(tr, acc, t, cooldownStatus.inCooldown, F) IN
    IF trig.kind = "error" THEN Swallowed(lg, h \cup trig.hit)
    ELSE IF trig.kind = "trigger"
      THEN LET resumeTime == t + Duration(trig.base, sev)
               rec == recordCircuitBreaker(lg, t, trig.type, resumeTime, sev, trig.type, F)
           IN IF rec.ok
                THEN Returned(Halted(trig.type, resumeTime, sev), rec.log, trig.type,
                              h \cup rec.hit)
                ELSE Swallowed(rec.log, h \cup rec.hit)
    ELSE IF cooldownStatus.inCooldown
      THEN Returned([NoStatus EXCEPT !.isInCooldown = TRUE,
                                     !.cooldownUntil = cooldownStatus.cooldownUntil,
                                     !.severityLevel = sev],
                    lg, "none", h)
    ELSE Returned(NoStatus, lg, "none", h)

\* The multiplier a check at effective severity level `level` applies to
\* every threshold: the level is in scope at line 629 and the comment of
\* line 628 names it, the expression reads the cooldown flag only.
severityThresholdMultiplier(inCooldown, level) == thresholdMultiplier(inCooldown)

\* What a call that gets to the trigger conditions has computed before
\* them (lines 558-568 and 629): whether the system is in cooldown, the
\* effective severity level and the threshold multiplier (in halves).
NoContext == [inCooldown |-> FALSE, level |-> 0, multiplier |-> 0]

CheckContext(lg, t, F) ==
  LET active == getActiveCircuitBreaker(lg, t, F)
      cooldownStatus == isInCooldownPeriod(active.log, t, F)
      current == getCurrentSeverityLevel(active.log, t, F)
      effectiveSeverityLevel == EffectiveSeverity(current.level, cooldownStatus)
  IN [inCooldown |-> cooldownStatus.inCooldown,
      level |-> effectiveSeverityLevel,
      multiplier |-> severityThresholdMultiplier(cooldownStatus.inCooldown,
                                                 effectiveSeverityLevel)]

\* The whole call: ret is the resolved CircuitBreakerStatus, log the table
\* afterwards, path the return statement taken, hit the statements that ran
\* and failed, raised whether the promise rejects.
checkCircuitBreaker(lg, tr, acc, t, F) ==
  LET activeBreaker == getActiveCircuitBreaker(lg, t, F) IN
  IF activeBreaker.found
    THEN Returned(activeBreaker.status, activeBreaker.log, activeBreaker.branch,
                  activeBreaker.hit)
    ELSE Evaluate(activeBreaker.log, tr, acc, t, F, activeBreaker.hit)

\* --------------------------------------------------- comprehensiveRiskCheck
RiskBlockers_HaltBlocks(circuitBreaker, positionAnomaly) ==
  (IF circuitBreaker.shouldHalt THEN <<circuitBreaker.reason>> ELSE << >>)
    \o (IF positionAnomaly.isAnomalous /\ positionAnomaly.severity = "high"
          THEN <<positionAnomaly.reason>> ELSE << >>)

\* lines 958-979: a halted breaker pushes nothing; a high position anomaly
\* is the only blocker
RiskBlockers(circuitBreaker, positionAnomaly) ==
  IF positionAnomaly.isAnomalous /\ positionAnomaly.severity = "high"
    THEN <<positionAnomaly.reason>> ELSE << >>

\* lines 973-995, in push order
RiskWarnings(positionAnomaly, frequencyAnomaly, correlationRisk) ==
  (IF positionAnomaly.isAnomalous /\ positionAnomaly.severity # "high"
     THEN <<positionAnomaly.reason>> ELSE << >>)
    \o (IF frequencyAnomaly.isAnomalous THEN <<frequencyAnomaly.reason>> ELSE << >>)
    \o (IF correlationRisk.isAnomalous THEN <<correlationRisk.reason>> ELSE << >>)

\* the returned object of lines 997-1001, with the three detector results
\* it was built from
RiskResult(circuitBreaker, positionAnomaly, frequencyAnomaly, correlationRisk) ==
  [approved |-> Len(RiskBlockers(circuitBreaker, positionAnomaly)) = 0,
   warnings |-> RiskWarnings(positionAnomaly, frequencyAnomaly, correlationRisk),
   blockers |-> RiskBlockers(circuitBreaker, positionAnomaly),
   position |-> positionAnomaly, frequency |-> frequencyAnomaly,
   correlation |-> correlationRisk]

NoRisk == [approved |-> FALSE, warnings |-> << >>, blockers |-> << >>,
           position |-> NotAnomalous, frequency |-> NotAnomalous,
           correlation |-> NotAnomalous]
NoArgs == [amount |-> 0, leverage |-> 0, openCount |-> 0, positions |-> << >>,
           pnlPercent |-> 0, stopLoss |-> 0, shouldClose |-> FALSE,
           symbol |-> "", rows |-> << >>, correlations |-> << >>]

\* -------------------------------------------------- executeTradingDecision
\* The stages of one trading cycle after its top-of-cycle breaker check, in
\* program order (lines 1162-1700).  stop names the stage whose early return
\* ends the cycle ("none": the cycle runs to its end).
CycleStages == <<"market", "account", "positions", "quality", "forced_close", "integrity", "agent">>
CycleStops == {"market", "account", "quality", "integrity", "none"}

RECURSIVE StagesUntil(_, _)
StagesUntil(stop, k) ==
  IF k > Len(CycleStages) THEN {}
  ELSE IF CycleStages[k] = stop THEN {stop}
  ELSE {CycleStages[k]} \cup StagesUntil(stop, k + 1)

CycleStagesRun_NoReturn(chk, stop) == StagesUntil(stop, 1)

\* lines 1141-1160: a halted status, or a check that threw, ends the cycle
\* before anything else runs
CycleStagesRun(chk, stop) ==
  IF chk.raised \/ chk.ret.shouldHalt THEN {} ELSE StagesUntil(stop, 1)

\* part_001 lines 1312-1336 for one position: held too long, or at or below
\* the stop-loss line of its leverage (the ultra-short rules of lines
\* 1338-1367 only close winning positions of that strategy; the strategy is
\* the default one)
ShouldForceClose(pos) ==
  pos.overdue \/ pos.pnlPercent <= getDynamicStopLoss(pos.leverage)

NoForced == [positions |-> << >>, lines |-> << >>, closed |-> {}]

\* the forced-close loop of lines 1273-1515 over the open positions: lines
\* is the stop-loss line computed for each position, closed the positions
\* selected for forced close; a cycle that returned before the loop has
\* looked at no position
ForcedCloseLoop(stages, positions) ==
  IF "forced_close" \in stages
    THEN [positions |-> positions,
          lines |-> [k \in DOMAIN positions |-> getDynamicStopLoss(positions[k].leverage)],
          closed |-> {k \in DOMAIN positions : ShouldForceClose(positions[k])}]
    ELSE [NoForced EXCEPT !.positions = positions]

\* the trades rows of type 'close' that the loop inserts, in position order
\* (lines 1473-1488)
RECURSIVE ForcedCloseRows(_, _, _)
ForcedCloseRows(forced, t, k) ==
  IF k > Len(forced.positions) THEN << >>
  ELSE (IF k \in forced.closed THEN <<[pnl |-> forced.positions[k].pnl, ts |-> t]>> ELSE << >>)
         \o ForcedCloseRows(forced, t, k + 1)

\* ------------------------------------------------------------------ state
\* The callers whose checkCircuitBreaker calls can be in flight together: the
\* trading loop and the status endpoint.
Callers == {"loop", "api"}

\* One in-flight call: pc is the statement it will run next, the other
\* fields are its local variables, ret its result once done.
IdleCall ==
  [pc |-> "idle", done |-> FALSE, inCooldown |-> FALSE, cooldownUntil |-> Null,
   cooldownSev |-> Null, sev |-> 0, type |-> "", resumeTime |-> Null, ret |-> NoStatus]

LegacyRow ==
  [reason |-> "legacy", triggeredAt |-> 0, resumeAt |-> BadTime, status |-> "active",
   severityLevel |-> 1, cooldownUntil |-> Null, triggerType |-> ""]

InitLogs == {<< >>, <<LegacyRow>>}

NoCall ==
  [op |-> "init", ret |-> NoStatus, path |-> "", hit |-> {}, raised |-> FALSE,
   active |-> "", ok |-> FALSE, stages |-> {}, risk |-> NoRisk, args |-> NoArgs,
   forced |-> NoForced, anomaly |-> NotAnomalous, context |-> NoContext]

Init ==
  /\ now = 0
  /\ log \in InitLogs
  /\ trades = << >>
  /\ account \in AccountChoices
  /\ last = NoCall
  /\ calls = [c \in Callers |-> IdleCall]
  /\ stopped = NoStop

\* the clock advances
Tick(d, horizon) ==
  /\ now + d <= horizon
  /\ now' = now + d
  /\ last' = [NoCall EXCEPT !.op = "tick"]
  /\ UNCHANGED <<log, stopped, trades, account, calls>>

\* the clock of the scheduled loop (startTradingLoop): cron has run the cycle
\* of the current instant before the next instant comes
CronTick(d, horizon) ==
  /\ last.op = "cycle"
  /\ Tick(d, horizon)

CallRecord(op, chk, F, stages) ==
  [op |-> op, ret |-> chk.ret, path |-> chk.path, hit |-> chk.hit, raised |-> chk.raised,
   active |-> getActiveCircuitBreaker(log, now, F).branch, ok |-> FALSE, stages |-> stages,
   risk |-> NoRisk, args |-> NoArgs, forced |-> NoForced, anomaly |-> NotAnomalous,
   context |-> IF chk.path \in TriggerTypes \cup {"none"}
                 THEN CheckContext(log, now, F) ELSE NoContext]

\* GET /api/circuit-breaker
StatusQuery(F) ==
  LET chk == checkCircuitBreaker(log, trades, account, now, F) IN
  /\ Len(chk.log) <= MaxLog
  /\ log' = chk.log
  /\ stopped' = LastStop(log, log', stopped, now)
  /\ last' = CallRecord("status", chk, F, {})
  /\ UNCHANGED <<now, trades, account, calls>>

\* the close trades a cycle may write: the forced-close loop (lines 1374-1510)
\* and the agent's tools insert a row of type 'close' with the realised pnl
CycleCloses(stages, pnls) ==
  IF stages \cap {"forced_close", "agent"} # {} /\ Len(trades) < MaxTrades
    THEN {<< >>} \cup {<<[pnl |-> p, ts |-> now]>> : p \in pnls}
    ELSE {<< >>}

\* one scheduled (or manually triggered) trading cycle
executeTradingDecision(F, stop, maxLog, pnls, positions) ==
  LET chk == checkCircuitBreaker(log, trades, account, now, F)
      stages == CycleStagesRun(chk, stop)
      forced == ForcedCloseLoop(stages, positions)
      rows == ForcedCloseRows(forced, now, 1)
  IN
  /\ Len(chk.log) <= maxLog
  /\ rows = << >> \/ Len(trades) + Len(rows) <= MaxStopTrades
  /\ log' = chk.log
  /\ stopped' = LastStop(log, log', stopped, now)
  /\ \E closes \in CycleCloses(stages, pnls) : trades' = trades \o rows \o closes
  /\ last' = [CallRecord("cycle", chk, F, stages) EXCEPT !.forced = forced]
  /\ UNCHANGED <<now, account, calls>>

\* POST /api/reset-circuit-breaker with the right password
ManualReset(failed) ==
  LET r == resetCircuitBreaker(log, failed) IN
  /\ log' = r.log
  /\ stopped' = LastStop(log, log', stopped, now)
  /\ last' = [NoCall EXCEPT !.op = "reset", !.ok = r.ret,
                            !.path = IF ActiveIds(log) = {} THEN "reset_none" ELSE "reset_rows",
                            !.hit = IF failed THEN {"updReset"} ELSE {}]
  /\ UNCHANGED <<now, trades, account, calls>>

\* POST /api/close-position with the right password: the position is closed
\* on the exchange and a trade row of type 'close' with the realised pnl is
\* inserted, whatever the state of the circuit breaker
ClosePosition(pnl, maxTrades) ==
  /\ Len(trades) < maxTrades
  /\ trades' = Append(trades, [pnl |-> pnl, ts |-> now])
  /\ last' = [NoCall EXCEPT !.op = "close"]
  /\ UNCHANGED <<now, log, stopped, account, calls>>

\* the risk gate: the breaker check (with its writes), then the three
\* detectors; F holds the statements that fail
comprehensiveRiskCheck(amount, leverage, openCount, positions, F, maxLog) ==
  LET chk == checkCircuitBreaker(log, trades, account, now, F \cap StoreOps)
      positionAnomaly == detectAnomalousPosition(account, amount, leverage, F)
      frequencyAnomaly == detectFrequentTrading(openCount, F)
      correlationRisk == detectCorrelationRisk(positions, F)
  IN
  /\ Len(chk.log) <= maxLog
  /\ log' = chk.log
  /\ stopped' = LastStop(log, log', stopped, now)
  /\ last' = [CallRecord("risk", chk, F, {}) EXCEPT
                 !.hit = F,
                 !.risk = RiskResult(chk.ret, positionAnomaly, frequencyAnomaly, correlationRisk),
                 !.args = [NoArgs EXCEPT !.amount = amount, !.leverage = leverage,
                                         !.openCount = openCount, !.positions = positions]]
  /\ UNCHANGED <<now, trades, account, calls>>

\* the extreme stop-loss test of the forced-close loop for one position
\* (part_001 lines 1326-1336): pnlPercent <= getDynamicStopLoss(leverage)
ForcedCloseCheck(leverage, pnlPercent) ==
  /\ last' = [NoCall EXCEPT
                 !.op = "stop_loss",
                 !.args = [NoArgs EXCEPT !.leverage = leverage, !.pnlPercent = pnlPercent,
                                         !.stopLoss = getDynamicStopLoss(leverage),
                                         !.shouldClose = pnlPercent <= getDynamicStopLoss(leverage)]]
  /\ UNCHANGED <<now, log, stopped, trades, account, calls>>

\* detectFrequentTrading(symbol) on a trades table that holds the rows
\* `rows` next to the close rows of `trades` (every row was written at or
\* before now)
FrequencyCheck(symbol, rows, F) ==
  /\ \A i \in DOMAIN rows : rows[i].ts <= now
  /\ last' = [NoCall EXCEPT
                 !.op = "frequency", !.hit = F,
                 !.anomaly = detectFrequentTrading(OpenTradeCount(rows, symbol, now), F),
                 !.args = [NoArgs EXCEPT !.symbol = symbol, !.rows = rows]]
  /\ UNCHANGED <<now, log, stopped, trades, account, calls>>

\* detectCorrelationRisk(newSymbol, newSide, existingPositions); correlations
\* is what calculateCorrelation returns for each pair
CorrelationCheck(positions, F) ==
  /\ last' = [NoCall EXCEPT
                 !.op = "correlation", !.hit = F,
                 !.anomaly = detectCorrelationRisk(positions, F),
                 !.args = [NoArgs EXCEPT
                             !.positions = positions,
                             !.correlations = [k \in DOMAIN positions |->
                                                 calculateCorrelation(positions[k], F)]]]
  /\ UNCHANGED <<now, log, stopped, trades, account, calls>>

\* The store works: no statement fails.
Next ==
  \/ \E d \in TickSteps : Tick(d, MaxTime)
  \/ StatusQuery({})
  \/ \E stop \in CycleStops : executeTradingDecision({}, stop, MaxLog, PnlChoices, << >>)
  \/ ManualReset(FALSE)

Spec == Init /\ [][Next]_vars

\* The store may fail: each call runs under one of the failure patterns.
NextFail ==
  \/ \E d \in TickSteps : Tick(d, MaxFailTime)
  \/ \E F \in FailChoices : executeTradingDecision(F, "none", MaxLog, PnlChoices, << >>)
  \/ \E failed \in BOOLEAN : ManualReset(failed)

SpecFail == Init /\ [][NextFail]_vars

\* A long run of the trading loop with a working store, started right after
\* one losing close trade: breakers trigger, expire and are reset over a whole
\* day, so that the severity level escalates.
InitSeverity ==
  /\ now = 0
  /\ log \in InitLogs
  /\ trades = SeverityTrades
  /\ account \in AccountChoices
  /\ last = NoCall
  /\ calls = [c \in Callers |-> IdleCall]
  /\ stopped = NoStop

NextSeverity ==
  \/ \E d \in TickSteps : CronTick(d, MaxSevTime)
  \/ executeTradingDecision({}, "none", MaxSevLog, {}, << >>)
  \/ ManualReset(FALSE)

SpecSeverity == InitSeverity /\ [][NextSeverity]_vars

\* The trigger conditions: an operator closes at most one position per
\* interval through the API, before the scheduled cycle of that instant; the
\* cycles themselves close nothing.
InitTrig ==
  /\ now = 0
  /\ log = << >>
  /\ trades = << >>
  /\ account \in AccountChoices
  /\ last = NoCall
  /\ calls = [c \in Callers |-> IdleCall]
  /\ stopped = NoStop

NextTrig ==
  \/ \E d \in TickSteps : CronTick(d, MaxTrigTime)
  \/ \E p \in TrigPnl : last.op \in {"init", "tick"} /\ ClosePosition(p, MaxTrigTrades)
  \/ executeTradingDecision({}, "none", MaxTrigLog, {}, << >>)

SpecTrig == InitTrig /\ [][NextTrig]_vars

\* The minutes after an auto-resume: the loop runs every 5 minutes (the
\* default TRADING_INTERVAL_MINUTES) after one losing close trade, and an
\* operator may close a position at a large loss or reset the breaker.
InitGrace ==
  /\ now = 0
  /\ log = << >>
  /\ trades = SeverityTrades
  /\ account \in AccountChoices
  /\ last = NoCall
  /\ calls = [c \in Callers |-> IdleCall]
  /\ stopped = NoStop

NextGrace ==
  \/ \E d \in GraceTickSteps : CronTick(d, MaxGraceTime)
  \/ \E p \in GracePnl : ClosePosition(p, MaxGraceTrades)
  \/ executeTradingDecision({}, "none", MaxGraceLog, {}, << >>)
  \/ ManualReset(FALSE)

SpecGrace == InitGrace /\ [][NextGrace]_vars

\* The risk gate and the stop-loss line, on a store that holds one losing
\* close trade: the breaker check of a cycle or of the gate triggers, halts
\* and auto-resumes as time passes.  A gate call, a detector call or a
\* stop-loss test is followed by a clock tick or a cycle before the next one.
InitRisk ==
  /\ now = 0
  /\ log = << >>
  /\ trades = SeverityTrades
  /\ account \in RiskAccounts
  /\ last = NoCall
  /\ calls = [c \in Callers |-> IdleCall]
  /\ stopped = NoStop

NextRisk ==
  \/ \E d \in TickSteps : Tick(d, MaxRiskTime)
  \/ executeTradingDecision({}, "none", MaxRiskLog, {}, << >>)
  \/ \E amount \in RiskAmounts, leverage \in RiskLeverages, openCount \in OpenCounts,
        positions \in RiskPositions, F \in RiskFailChoices :
        /\ last.op \in {"init", "tick", "cycle"}
        /\ comprehensiveRiskCheck(amount, leverage, openCount, positions, F, MaxRiskLog)
  \/ \E leverage \in StopLossLeverages, pnlPercent \in PnlPercents :
        /\ last.op \in {"init", "tick", "cycle"}
        /\ ForcedCloseCheck(leverage, pnlPercent)
  \/ \E symbol \in Symbols, rows \in TradeTables, F \in {{}, {"selOpenCount"}} :
        /\ last.op \in {"init", "tick", "cycle"}
        /\ FrequencyCheck(symbol, rows, F)
  \/ \E positions \in CorrelationPositions, F \in {{}, {"selSignals"}} :
        /\ last.op \in {"init", "tick", "cycle"}
        /\ CorrelationCheck(positions, F)

SpecRisk == InitRisk /\ [][NextRisk]_vars

\* The forced-close loop: the loop runs every hour with a working store and
\* no account history (balance 1000); each cycle finds some open positions
\* on the exchange, and the loss of a forced close is what the next check
\* sees.
InitStop ==
  /\ now = 0
  /\ log = << >>
  /\ trades = << >>
  /\ account \in AccountChoices
  /\ last = NoCall
  /\ calls = [c \in Callers |-> IdleCall]
  /\ stopped = NoStop

NextStop ==
  \/ \E d \in TickSteps : CronTick(d, MaxStopTime)
  \/ \E positions \in CyclePositions :
        executeTradingDecision({}, "none", MaxStopLog, {}, positions)

SpecStop == InitStop /\ [][NextStop]_vars

\* Auto-resume without an operator: after one losing close trade the loop
\* runs every hour and the status endpoint is queried at any time; nobody
\* resets a breaker.  Cron fires whatever the endpoint does (strong fairness
\* of the clock), and each cron instant runs its cycle.
InitResume ==
  /\ now = 0
  /\ log \in InitLogs
  /\ trades = SeverityTrades
  /\ account \in AccountChoices
  /\ last = NoCall
  /\ calls = [c \in Callers |-> IdleCall]
  /\ stopped = NoStop

ResumeTick == \E d \in TickSteps : CronTick(d, MaxResumeTime)

ResumeCycle == executeTradingDecision({}, "none", MaxResumeLog, {}, << >>)

ResumeQuery == last.op # "status" /\ StatusQuery({})

NextResume == ResumeTick \/ ResumeCycle \/ ResumeQuery

SpecResume ==
  InitResume /\ [][NextResume]_vars /\ SF_vars(ResumeTick) /\ WF_vars(ResumeCycle)

\* ---------------------------------------------- interleaved check calls
\* Each store statement of checkCircuitBreaker is one atomic step; the
\* statements of different callers interleave freely (async I/O, no lock, no
\* transaction).  The store works.
Finish(c, ret) ==
  calls' = [calls EXCEPT ![c] = [@ EXCEPT !.pc = "idle", !.done = TRUE, !.ret = ret]]

Goto(c, pc) == calls' = [calls EXCEPT ![c] = [@ EXCEPT !.pc = pc]]

BeginCheck(c) ==
  /\ calls[c].pc = "idle"
  /\ calls' = [calls EXCEPT ![c] = [IdleCall EXCEPT !.pc = "selActive"]]
  /\ UNCHANGED <<now, log, stopped, trades, account, last>>

\* lines 289-325: the SELECT of the active row and the decision on it
StepSelActive(c) ==
  LET r == getActiveCircuitBreaker(log, now, {}) IN
  /\ calls[c].pc = "selActive"
  /\ IF r.found THEN Finish(c, r.status)
     ELSE IF r.branch = "expired" THEN Goto(c, "updExpire")
     ELSE Goto(c, "selCooldown")
  /\ UNCHANGED <<now, log, stopped, trades, account, last>>

\* lines 331-370: the auto-resume UPDATE
StepExpire(c) ==
  /\ calls[c].pc = "updExpire"
  /\ log' = ExpireActive(log)
  /\ stopped' = LastStop(log, log', stopped, now)
  /\ Goto(c, "selCooldown")
  /\ UNCHANGED <<now, trades, account, last>>

\* line 558
StepCooldown(c) ==
  LET cd == isInCooldownPeriod(log, now, {}) IN
  /\ calls[c].pc = "selCooldown"
  /\ calls' = [calls EXCEPT ![c] = [@ EXCEPT !.pc = "selSeverity",
                                             !.inCooldown = cd.inCooldown,
                                             !.cooldownUntil = cd.cooldownUntil,
                                             !.cooldownSev = cd.severityLevel]]
  /\ UNCHANGED <<now, log, stopped, trades, account, last>>

\* lines 567-568
StepSeverity(c) ==
  LET cur == getCurrentSeverityLevel(log, now, {}) IN
  /\ calls[c].pc = "selSeverity"
  /\ calls' = [calls EXCEPT ![c] =
                 [@ EXCEPT !.pc = "selManualReset",
                           !.sev = EffectiveSeverity(cur.level, [severityLevel |-> calls[c].cooldownSev])]]
  /\ UNCHANGED <<now, log, stopped, trades, account, last>>

\* lines 575-590
StepManualGrace(c) ==
  /\ calls[c].pc = "selManualReset"
  /\ IF InManualResetGrace(log, now) THEN Finish(c, NoStatus) ELSE Goto(c, "selAutoRecovery")
  /\ UNCHANGED <<now, log, stopped, trades, account, last>>

\* lines 594-616
StepAutoGrace(c) ==
  /\ calls[c].pc = "selAutoRecovery"
  /\ IF InAutoRecoveryGrace(log, now) THEN Finish(c, NoStatus) ELSE Goto(c, "selTrades")
  /\ UNCHANGED <<now, log, stopped, trades, account, last>>

\* lines 618-836 up to the call of recordCircuitBreaker: the balance and the
\* trade queries (no trade is written while the calls are in flight)
StepTriggers(c) ==
  LET trig == EvaluateTriggers(trades, account, now, calls[c].inCooldown, {}) IN
  /\ calls[c].pc = "selTrades"
  /\ IF trig.kind = "trigger"
       THEN calls' = [calls EXCEPT ![c] =
                        [@ EXCEPT !.pc = "updDemote", !.type = trig.type,
                                  !.resumeTime = now + Duration(trig.base, calls[c].sev)]]
     ELSE IF calls[c].inCooldown
       THEN Finish(c, [NoStatus EXCEPT !.isInCooldown = TRUE,
                                       !.cooldownUntil = calls[c].cooldownUntil,
                                       !.severityLevel = calls[c].sev])
     ELSE Finish(c, NoStatus)
  /\ UNCHANGED <<now, log, stopped, trades, account, last>>

\* lines 248-253: step 1 of recordCircuitBreaker
StepDemote(c) ==
  /\ calls[c].pc = "updDemote"
  /\ log' = DemoteActive(log)
  /\ stopped' = LastStop(log, log', stopped, now)
  /\ Goto(c, "insInsert")
  /\ UNCHANGED <<now, trades, account, last>>

\* lines 260-273: step 2 of recordCircuitBreaker, then the return of line 665
StepInsert(c) ==
  /\ calls[c].pc = "insInsert"
  /\ Len(log) < MaxConcLog
  /\ log' = InsertActive(log, NewRecord(now, calls[c].type, calls[c].resumeTime,
                                        calls[c].sev, calls[c].type))
  /\ stopped' = LastStop(log, log', stopped, now)
  /\ Finish(c, Halted(calls[c].type, calls[c].resumeTime, calls[c].sev))
  /\ UNCHANGED <<now, trades, account, last>>

\* the clock is coarse: it advances only between calls
IdleTick(d, horizon) ==
  /\ \A c \in Callers : calls[c].pc = "idle"
  /\ Tick(d, horizon)

InitConc ==
  /\ now = 0
  /\ log \in InitLogs
  /\ trades = SeverityTrades
  /\ account \in AccountChoices
  /\ last = NoCall
  /\ calls = [c \in Callers |-> IdleCall]
  /\ stopped = NoStop

NextConc ==
  \/ \E d \in TickSteps : IdleTick(d, MaxConcTime)
  \/ ManualReset(FALSE)
  \/ \E c \in Callers :
       \/ BeginCheck(c)
       \/ StepSelActive(c)
       \/ StepExpire(c)
       \/ StepCooldown(c)
       \/ StepSeverity(c)
       \/ StepManualGrace(c)
       \/ StepAutoGrace(c)
       \/ StepTriggers(c)
       \/ StepDemote(c)
       \/ StepInsert(c)

SpecConc == InitConc /\ [][NextConc]_vars

\* Severity over more than a day: the loop runs every hour after one losing
\* close trade and nobody resets a breaker; an operator closes up to two
\* more positions through the API, at a small profit or at a loss of 4%,
\* before the cycle of an instant.
InitDecay ==
  /\ now = 0
  /\ log = << >>
  /\ trades = SeverityTrades
  /\ account \in AccountChoices
  /\ last = NoCall
  /\ calls = [c \in Callers |-> IdleCall]
  /\ stopped = NoStop

NextDecay ==
  \/ \E d \in TickSteps : CronTick(d, MaxDecayTime)
  \/ \E p \in DecayPnl : last.op = "tick" /\ ClosePosition(p, MaxDecayTrades)
  \/ executeTradingDecision({}, "none", MaxDecayLog, {}, << >>)

SpecDecay == InitDecay /\ [][NextDecay]_vars

\* ------------------------------------------------------ overlapping cycles
\* executeTradingDecision is an async function that cron.schedule and
\* manualTriggerTrading call without looking at a cycle already in flight
\* (part_001 lines 1816-1819 and 1846): the cycle started by cron ("loop")
\* and the one started through POST /api/trigger-trading ("api") interleave
\* at their awaits.  calls[c].pc is the stage the cycle of c runs next.
OverlapPositions == {<< >>, <<Position(20, -15, -40, FALSE)>>}

NextStage(stage) ==
  LET k == CHOOSE j \in DOMAIN CycleStages : CycleStages[j] = stage IN
  IF k = Len(CycleStages) THEN "idle" ELSE CycleStages[k + 1]

\* lines 1127-1160: the cycle begins with its breaker check and returns at
\* once when the check halts
BeginCycle(c) ==
  LET chk == checkCircuitBreaker(log, trades, account, now, {})
      stages == CycleStagesRun(chk, "none")
  IN
  /\ calls[c].pc = "idle"
  /\ Len(chk.log) <= MaxOverlapLog
  /\ log' = chk.log
  /\ stopped' = LastStop(log, log', stopped, now)
  /\ calls' = [calls EXCEPT ![c] =
                 IF stages = {}
                   THEN [IdleCall EXCEPT !.done = TRUE, !.ret = chk.ret]
                   ELSE [IdleCall EXCEPT !.pc = CycleStages[1], !.ret = chk.ret]]
  /\ last' = CallRecord("begin", chk, {}, stages)
  /\ UNCHANGED <<now, trades, account>>

\* one stage of a cycle that passed its check (lines 1162-1700); the
\* forced-close stage writes the close rows of the positions it closes
StageStep(c, positions) ==
  LET stage == calls[c].pc
      forced == IF stage = "forced_close"
                  THEN ForcedCloseLoop({"forced_close"}, positions)
                  ELSE NoForced
      rows == ForcedCloseRows(forced, now, 1)
  IN
  /\ stage \notin {"idle"}
  /\ stage = "forced_close" \/ positions = << >>
  /\ Len(trades) + Len(rows) <= MaxOverlapTrades
  /\ trades' = trades \o rows
  /\ calls' = [calls EXCEPT ![c] =
                 [@ EXCEPT !.pc = NextStage(stage), !.done = (NextStage(stage) = "idle")]]
  /\ last' = [NoCall EXCEPT !.op = "stage", !.path = stage, !.forced = forced]
  /\ UNCHANGED <<now, log, stopped, account>>

InitOverlap ==
  /\ now = 0
  /\ log = << >>
  /\ trades = << >>
  /\ account \in AccountChoices
  /\ last = NoCall
  /\ calls = [c \in Callers |-> IdleCall]
  /\ stopped = NoStop

NextOverlap ==
  \/ \E d \in TickSteps : Tick(d, MaxOverlapTime)
  \/ \E c \in Callers : BeginCycle(c)
  \/ \E c \in Callers, positions \in OverlapPositions : StageStep(c, positions)

SpecOverlap == InitOverlap /\ [][NextOverlap]_vars

\* ----------------------------------------------------------------- typing
TypeOK ==
  /\ now \in 0..Max2(MaxSevTime, MaxDecayTime)
  /\ Len(log) <= MaxSevLog
  /\ \A i \in DOMAIN log : log[i].status \in {"active", "expired", "manually_reset"}
  /\ Len(trades) <= Max2(MaxTrades, MaxTrigTrades)
  /\ stopped.id \in 0..Len(log)
  /\ stopped.id > 0 => (stopped.at \in 0..now /\ log[stopped.id].status # "active")

\* ================================================================= claims
CheckOps == {"status", "cycle"}

\* C1: after any sequence of checkCircuitBreaker and resetCircuitBreaker
\* calls made one at a time, at most one circuit_breaker_log record has
\* status 'active'.
C1_AtMostOneActive == Cardinality(ActiveIds(log)) <= 1

\* a new breaker was recorded while an earlier record was still active (its
\* read had failed): the earlier one is demoted, the new one is the only
\* active record
C1_Witness ==
  /\ last.op = "cycle" /\ last.path \in TriggerTypes
  /\ Cardinality(ActiveIds(log)) = 1
  /\ \E i \in DOMAIN log : log[i].status = "expired" /\ log[i].resumeAt > now

\* C2: a trading cycle whose top-of-cycle check returns shouldHalt = true
\* runs no later stage (market data, account, positions, forced close,
\* agent) and writes no trade.
C2_HaltedCycleSkipped ==
  [][(last'.op = "cycle" /\ last'.ret.shouldHalt)
       => (last'.stages = {} /\ trades' = trades)]_vars

C2_Witness == last.op = "cycle" /\ last.ret.shouldHalt /\ last.stages = {}

\* C3: a check that finds an active record with now < resumeAt returns
\* shouldHalt = true with that record's reason, resumeAt and severity level
\* and leaves the whole table unchanged.
C3_ActiveBreakerHaltsWithoutWrite ==
  [][(/\ last'.op \in CheckOps
      /\ ActiveIds(log) # {}
      /\ \A i \in ActiveIds(log) : log[i].resumeAt # BadTime /\ now < log[i].resumeAt)
       => (/\ log' = log
           /\ last'.ret.shouldHalt
           /\ \E i \in ActiveIds(log) :
                /\ last'.ret.reason = log[i].reason
                /\ last'.ret.resumeTime = log[i].resumeAt
                /\ last'.ret.severityLevel = log[i].severityLevel)]_vars

C3_Witness ==
  /\ last.op \in CheckOps /\ last.active = "active" /\ last.ret.shouldHalt
  /\ \E i \in ActiveIds(log) : now < log[i].resumeAt /\ last.ret.resumeTime = log[i].resumeAt

\* C4: a check that finds an active record with now >= resumeAt sets it to
\* 'expired' and goes on evaluating in the same call (it does not return the
\* record as a halt) with the result it would give had the record already
\* been expired; when that call records no new breaker it returns
\* shouldHalt = false and no record is active afterwards.
C4_AutoResume ==
  [][(/\ last'.op \in CheckOps
      /\ ActiveIds(log) # {}
      /\ \A i \in ActiveIds(log) : log[i].resumeAt # BadTime /\ now >= log[i].resumeAt)
       => (/\ \A i \in ActiveIds(log) : log'[i].status = "expired"
           /\ last'.path \notin {"active", "bad_resume"}
           /\ last'.ret = checkCircuitBreaker(SetActiveTo(log, "expired"),
                                              trades, account, now, {}).ret
           /\ (Len(log') = Len(log)
                 => (~last'.ret.shouldHalt /\ ActiveIds(log') = {}))
           /\ (Len(log') > Len(log) => last'.ret.shouldHalt))]_vars

C4_Witness ==
  /\ last.op \in CheckOps /\ last.active = "expired" /\ ~last.ret.shouldHalt
  /\ ActiveIds(log) = {}
  /\ \E i \in DOMAIN log : log[i].status = "expired" /\ log[i].resumeAt <= now

\* C5: resetCircuitBreaker turns every active record into manually_reset,
\* changes nothing else, returns true whether or not a record was active, and
\* a second call in a row changes nothing and returns true again.
C5_ResetIdempotent ==
  [][(last'.op = "reset")
       => (/\ last'.ok
           /\ Len(log') = Len(log)
           /\ \A i \in DOMAIN log :
                log'[i] = IF log[i].status = "active"
                            THEN [log[i] EXCEPT !.status = "manually_reset"]
                            ELSE log[i]
           /\ ActiveIds(log') = {}
           /\ (last.op = "reset" => log' = log))]_vars

\* a reset that found no active record, after an earlier reset had acted
C5_Witness ==
  /\ last.op = "reset" /\ last.ok /\ last.path = "reset_none"
  /\ \E i \in DOMAIN log : log[i].status = "manually_reset"

\* C7 as stated: whenever a store statement of the call fails, the call
\* returns shouldHalt = false.
C7_AnyFailureMeansNoHalt ==
  (last.op = "cycle" /\ last.hit # {}) => ~last.ret.shouldHalt

\* the statements whose failure reaches the catch of checkCircuitBreaker
ThrowingOps ==
  {"selManualReset", "selAutoRecovery", "selBalance", "selDaily", "selHourly",
   "selFourHour", "selRecent", "selLast", "updDemote", "insInsert"}

\* C7 amended: the call never raises; a failure of a grace-period query, of
\* the balance or a loss query, or of the demote or insert statement ends the
\* call with shouldHalt = false.
C7_NeverRaises ==
  (last.op = "cycle")
    => (/\ ~last.raised
        /\ (last.hit \cap ThrowingOps # {}
              => (~last.ret.shouldHalt /\ last.path = "error")))

C7_Witness ==
  /\ last.op = "cycle" /\ last.hit \cap ThrowingOps # {}
  /\ ~last.ret.shouldHalt /\ ~last.raised

\* C8: with an active record whose resume_at cannot be parsed, a check
\* returns shouldHalt = true with the record's reason and resumeTime =
\* now + 2 hours, and the record stays active.
C8_UnparsableResumeStaysActive ==
  [][(/\ last'.op \in CheckOps
      /\ ActiveIds(log) # {}
      /\ \A i \in ActiveIds(log) : log[i].resumeAt = BadTime)
       => (/\ log' = log
           /\ last'.ret.shouldHalt
           /\ last'.ret.resumeTime = now + 2 * Hour
           /\ \E i \in ActiveIds(log) : last'.ret.reason = log[i].reason)]_vars

C8_Witness ==
  /\ last.op \in CheckOps /\ last.active = "bad_resume" /\ last.ret.shouldHalt
  /\ now > 0
  /\ \E i \in ActiveIds(log) : log[i].resumeAt = BadTime

\* C6: recordCircuitBreaker is two separate statements: the demote leaves no
\* record active and touches nothing else, the insert adds one active record
\* and demotes nothing, so an insert that runs after another caller's insert
\* leaves both records active.
C6_DemoteInsertNotAtomic ==
  [][\A c \in Callers :
       /\ (calls[c].pc = "updDemote" /\ calls'[c].pc = "insInsert")
            => (ActiveIds(log') = {} /\ Len(log') = Len(log))
       /\ (calls[c].pc = "insInsert" /\ calls'[c].pc = "idle")
            => (/\ Len(log') = Len(log) + 1
                /\ ActiveIds(log') = ActiveIds(log) \cup {Len(log')}
                /\ calls'[c].ret.shouldHalt)]_vars

\* both callers returned shouldHalt = true and their two records are active
\* together
C6_Witness ==
  /\ Cardinality(ActiveIds(log)) = 2
  /\ \A c \in Callers : calls[c].done /\ calls[c].ret.shouldHalt

\* C9: the level of a new breaker is max(current, cooldown level); current
\* comes from the records triggered in the last 24 hours (count c, maximum
\* level m): c >= 3 gives min(m + 1, 4), c = 2 gives min(m, 3), c = 1 gives
\* m, c = 0 gives 1; the cooldown level is that of the latest expired or
\* manually reset record while now < its cooldownUntil, and 1 otherwise.
C9_SeverityEscalation ==
  [][(last'.op = "cycle" /\ Len(log') = Len(log) + 1 /\ ActiveIds(log) = {})
       => LET S == {i \in DOMAIN log : log[i].triggeredAt >= now - 24 * Hour}
              c == Cardinality(S)
              m == IF S = {} THEN 1
                   ELSE CHOOSE x \in {log[i].severityLevel : i \in S} :
                          \A i \in S : log[i].severityLevel <= x
              cur == IF c >= 3 THEN (IF m + 1 <= 4 THEN m + 1 ELSE 4)
                     ELSE IF c = 2 THEN (IF m <= 3 THEN m ELSE 3)
                     ELSE IF c = 1 THEN m
                     ELSE 1
              R == {i \in DOMAIN log : log[i].cooldownUntil # Null}
              cd == IF R = {} THEN 1
                    ELSE LET k == CHOOSE i \in R : \A j \in R : j <= i IN
                         IF now < log[k].cooldownUntil THEN log[k].severityLevel ELSE 1
              new == log'[Len(log')]
          IN /\ new.severityLevel = (IF cur >= cd THEN cur ELSE cd)
             /\ last'.ret.severityLevel = new.severityLevel]_vars

\* the fourth breaker within 24 hours is one level above the three before it
C9_Witness ==
  /\ last.op = "cycle" /\ last.path \in TriggerTypes /\ Len(log) >= 4
  /\ LET n == Len(log)
         P == {i \in 1..(n - 1) : log[i].triggeredAt >= now - 24 * Hour}
     IN /\ Cardinality(P) >= 3
        /\ \E i \in P : log[n].severityLevel = log[i].severityLevel + 1
        /\ \A i \in P : log[i].severityLevel < log[n].severityLevel

\* C10: every record has a severity level between 1 and 4.
C10_SeverityInRange == \A i \in DOMAIN log : log[i].severityLevel \in 1..4

\* a level-4 breaker followed by another breaker that stays at the cap
C10_Witness ==
  \E i, j \in DOMAIN log :
    /\ i < j /\ log[i].severityLevel = 4 /\ log[j].severityLevel = 4
    /\ log[j].triggeredAt - log[i].triggeredAt <= 24 * Hour

\* C11: a breaker created at time now with level s has resumeAt =
\* now + base * 2^(s-1), with base 12 h for daily_loss, 2 h for hourly_loss,
\* 4 h for four_hour_loss, 2 h for consecutive_loss and 1 h for
\* single_large_loss; the returned resumeTime is the stored resumeAt and the
\* returned severityLevel is s.
C11_BreakerDuration ==
  [][(last'.op \in CheckOps /\ Len(log') = Len(log) + 1)
       => LET rec == log'[Len(log')]
              base == [daily_loss |-> 720, hourly_loss |-> 120, four_hour_loss |-> 240,
                       consecutive_loss |-> 120, single_large_loss |-> 60]
          IN /\ rec.triggerType \in DOMAIN base
             /\ rec.triggeredAt = now
             /\ rec.severityLevel \in 1..4
             /\ rec.resumeAt = now + base[rec.triggerType] * 2 ^ (rec.severityLevel - 1)
             /\ last'.ret.shouldHalt
             /\ last'.ret.resumeTime = rec.resumeAt
             /\ last'.ret.severityLevel = rec.severityLevel]_vars

\* a daily_loss breaker of level 2 that halts for 24 hours
C11_Witness ==
  /\ last.op \in CheckOps /\ last.path = "daily_loss"
  /\ last.ret.severityLevel = 2 /\ last.ret.resumeTime = now + 24 * Hour
  /\ log[Len(log)].status = "active" /\ log[Len(log)].resumeAt = now + 24 * Hour

\* C12: the trigger conditions are evaluated in the order daily loss, 1-hour
\* loss, 4-hour loss, consecutive loss, single large loss: a check that gets
\* to them creates exactly one active record, of the type and duration of
\* the first breached condition in that order, and returns shouldHalt =
\* true; when none is breached it creates no record and returns shouldHalt
\* = false.
C12_TriggerPriority ==
  [][(last'.op \in CheckOps /\ last'.path \in TriggerTypes \cup {"none"})
       => LET R == {i \in DOMAIN log' : /\ log'[i].status \in {"expired", "manually_reset"}
                                         /\ log'[i].cooldownUntil # Null}
              cool == R # {} /\ now < log'[CHOOSE i \in R : \A j \in R : j <= i].cooldownUntil
              bal == IF account = Null THEN 1000 ELSE account
              n == Len(trades)
              sum(since) == PnlSince(trades, since)
              below(pnl, pct) == IF cool THEN 200 * pnl < pct * bal
                                         ELSE 100 * pnl < pct * bal
              order == <<"daily_loss", "hourly_loss", "four_hour_loss",
                         "consecutive_loss", "single_large_loss">>
              base == <<720, 120, 240, 120, 60>>
              hit == <<below(sum(now - (now % 1440)), -15),
                       below(sum(now - 60), -5),
                       below(sum(now - 240), -8),
                       /\ n >= 5
                       /\ \A i \in (n - 4)..n : trades[i].pnl < 0
                       /\ now - trades[n - 4].ts <= 240,
                       n > 0 /\ below(trades[n].pnl, -3)>>
              B == {k \in 1..5 : hit[k]}
          IN IF B = {}
               THEN last'.path = "none" /\ ~last'.ret.shouldHalt /\ Len(log') = Len(log)
               ELSE LET k == CHOOSE x \in B : \A y \in B : x <= y
                        rec == log'[Len(log')]
                    IN /\ last'.path = order[k]
                       /\ last'.ret.shouldHalt
                       /\ Len(log') = Len(log) + 1
                       /\ ActiveIds(log') = {Len(log')}
                       /\ rec.triggerType = order[k]
                       /\ rec.resumeAt = now + base[k] * 2 ^ (rec.severityLevel - 1)]_vars

\* five losses in a row whose last one is also a single large loss: the
\* breaker recorded is the consecutive-loss one
C12_Witness ==
  /\ last.op \in CheckOps /\ last.path = "consecutive_loss"
  /\ Len(trades) >= 5 /\ trades[Len(trades)].pnl = -40
  /\ log[Len(log)].status = "active" /\ log[Len(log)].triggerType = "consecutive_loss"

\* C13 as stated: in cooldown, with no grace period, a daily pnl sum equal
\* to -7.5% of the balance makes the check create a daily_loss breaker.
C13_ExactHalfThresholdTriggers ==
  [][(/\ last'.op \in CheckOps /\ last'.path \in TriggerTypes \cup {"none"}
      /\ isInCooldownPeriod(log', now, {}).inCooldown
      /\ 1000 * PnlSince(trades, now - (now % 1440))
            = -75 * (IF account = Null THEN 1000 ELSE account))
       => last'.path = "daily_loss"]_vars

\* C13 amended: a check that gets to the trigger conditions creates a
\* daily_loss breaker exactly when the daily pnl sum is strictly below -7.5%
\* of the balance in cooldown, and strictly below -15% outside cooldown; a
\* sum of exactly -7.5% creates no daily_loss breaker in either case.
C13_CooldownHalvesDailyThreshold ==
  [][(last'.op \in CheckOps /\ last'.path \in TriggerTypes \cup {"none"})
       => LET R == {i \in DOMAIN log' : /\ log'[i].status \in {"expired", "manually_reset"}
                                         /\ log'[i].cooldownUntil # Null}
              cool == R # {} /\ now < log'[CHOOSE i \in R : \A j \in R : j <= i].cooldownUntil
              bal == IF account = Null THEN 1000 ELSE account
              d == PnlSince(trades, now - (now % 1440))
          IN (last'.path = "daily_loss")
               <=> (IF cool THEN 1000 * d < -75 * bal ELSE 1000 * d < -150 * bal)]_vars

\* a daily_loss breaker created in cooldown by a daily loss between -7.5%
\* and -15% of the balance
C13_Witness ==
  /\ last.op \in CheckOps /\ last.path = "daily_loss"
  /\ isInCooldownPeriod(log, now, {}).inCooldown
  /\ LET d == PnlSince(trades, now - (now % 1440))
         bal == IF account = Null THEN 1000 ELSE account
     IN 1000 * d < -75 * bal /\ 1000 * d >= -150 * bal

\* C14 as stated: after an operator has reset an active breaker, a check
\* made within the next 4 hours (here: the very next call, at the same
\* instant) returns shouldHalt = false and creates no record.
C14_ManualResetProtects ==
  [][(/\ last.op = "reset" /\ last.ok /\ last.path = "reset_rows"
      /\ last'.op \in CheckOps)
       => (~last'.ret.shouldHalt /\ log' = log)]_vars

\* C15: when no record is active and the latest expired record's resumeAt
\* lies within the last 10 minutes, a check returns shouldHalt = false and
\* creates no record whatever the losses are; the check that expires a
\* record whose resumeAt lies within the last 10 minutes does not record a
\* new breaker either.
C15_AutoResumeProtects ==
  [][(last'.op \in CheckOps)
       => LET E == {i \in DOMAIN log : log[i].status = "expired"}
              e == CHOOSE i \in E : \A j \in E : j <= i
              recent(r) == r # BadTime /\ r <= now /\ now - r < 10
          IN /\ (ActiveIds(log) = {} /\ E # {} /\ recent(log[e].resumeAt))
                  => (~last'.ret.shouldHalt /\ log' = log)
             /\ (\E i \in ActiveIds(log) : recent(log[i].resumeAt))
                  => (/\ ~last'.ret.shouldHalt
                      /\ Len(log') = Len(log)
                      /\ ActiveIds(log') = {})]_vars

\* the cycle 5 minutes after an auto-resume: the last close trade is still a
\* large loss, and the check lets the cycle run without a new breaker
C15_Witness ==
  /\ last.op \in CheckOps /\ last.path = "auto_grace" /\ last.active = "none"
  /\ ~last.ret.shouldHalt /\ ActiveIds(log) = {}
  /\ \E i \in DOMAIN log : log[i].status = "expired" /\ log[i].resumeAt = now - 5
  /\ Len(trades) > 0 /\ trades[Len(trades)].pnl <= -40

\* C16: outside cooldown, when neither the daily, the 1-hour nor the 4-hour
\* loss is breached, a check that gets to the trigger conditions creates a
\* consecutive_loss breaker if and only if at least 5 close trades exist,
\* the 5 most recent all have pnl < 0, and the oldest of those 5 is at most
\* 4 hours before now.
C16_ConsecutiveLossTrigger ==
  [][(last'.op \in CheckOps /\ last'.path \in TriggerTypes \cup {"none"})
       => LET R == {i \in DOMAIN log' : /\ log'[i].status \in {"expired", "manually_reset"}
                                         /\ log'[i].cooldownUntil # Null}
              cool == R # {} /\ now < log'[CHOOSE i \in R : \A j \in R : j <= i].cooldownUntil
              bal == IF account = Null THEN 1000 ELSE account
              n == Len(trades)
              higher == \/ 100 * PnlSince(trades, now - (now % 1440)) < -15 * bal
                        \/ 100 * PnlSince(trades, now - 60) < -5 * bal
                        \/ 100 * PnlSince(trades, now - 240) < -8 * bal
              fiveLosses == /\ n >= 5
                            /\ \A i \in (n - 4)..n : trades[i].pnl < 0
                            /\ now - trades[n - 4].ts <= 240
          IN (~cool /\ ~higher)
               => ((last'.path = "consecutive_loss") <=> fiveLosses)]_vars

\* the first breaker of a run: five losses, the oldest exactly 4 hours old
C16_Witness ==
  /\ last.op \in CheckOps /\ last.path = "consecutive_loss" /\ Len(log) = 1
  /\ Len(trades) >= 5 /\ now - trades[Len(trades) - 4].ts = 240

\* C17 as stated: in cooldown, when no higher-priority condition is
\* breached, the 3 most recent close trades all losing within the last 4
\* hours (and fewer than 5 losses in a row) make the check create a
\* consecutive_loss breaker.
C17_CooldownThreeLosses ==
  [][(last'.op \in CheckOps /\ last'.path \in TriggerTypes \cup {"none"})
       => LET R == {i \in DOMAIN log' : /\ log'[i].status \in {"expired", "manually_reset"}
                                         /\ log'[i].cooldownUntil # Null}
              cool == R # {} /\ now < log'[CHOOSE i \in R : \A j \in R : j <= i].cooldownUntil
              bal == IF account = Null THEN 1000 ELSE account
              n == Len(trades)
              higher == \/ 200 * PnlSince(trades, now - (now % 1440)) < -15 * bal
                        \/ 200 * PnlSince(trades, now - 60) < -5 * bal
                        \/ 200 * PnlSince(trades, now - 240) < -8 * bal
              threeLosses == /\ n >= 3
                             /\ \A i \in (n - 2)..n : trades[i].pnl < 0
                             /\ now - trades[n - 2].ts <= 240
              fiveLosses == n >= 5 /\ \A i \in (n - 4)..n : trades[i].pnl < 0
          IN (cool /\ ~higher /\ threeLosses /\ ~fiveLosses)
               => last'.path = "consecutive_loss"]_vars

C19_PositionAnomalyRules ==
  (last.op = "risk" /\ "selRiskBalance" \notin last.hit)
    => LET balance == IF account = Null THEN 1000 ELSE account
           notional == last.args.amount
           leverage == last.args.leverage
           pos == last.risk.position
           rule1 == 100 * notional > 50 * balance
           rule2 == 100 * notional * leverage > 200 * balance
           rule3 == leverage >= 15 /\ 100 * notional > 30 * balance
       IN /\ rule1 => (pos.isAnomalous /\ pos.severity = "high"
                          /\ pos.reason = "position_too_large")
          /\ (~rule1 /\ rule2) => (pos.isAnomalous /\ pos.severity = "high"
                                      /\ pos.reason = "exposure_too_large")
          /\ (~rule1 /\ ~rule2 /\ rule3) => (pos.isAnomalous /\ pos.severity = "medium")
          /\ (~rule1 /\ ~rule2 /\ ~rule3) => ~pos.isAnomalous

\* balance 1000 (no account history), notional 200, leverage 18: 20% of the
\* balance, exposure 360%, reported high
C19_Witness ==
  /\ last.op = "risk" /\ "selRiskBalance" \notin last.hit /\ account = Null
  /\ last.args.amount = 200 /\ last.args.leverage = 18
  /\ last.risk.position.isAnomalous /\ last.risk.position.severity = "high"
  /\ last.risk.position.reason = "exposure_too_large"
  /\ ~last.risk.approved

\* C20: getDynamicStopLoss returns -15 for leverage >= 20, -18 for 15 <=
\* leverage < 20, -22 for 10 <= leverage < 15, -25 for 5 <= leverage < 10
\* and -30 for leverage < 5.
C20_StopLossBands ==
  (last.op = "stop_loss")
    => LET l == last.args.leverage
           sl == last.args.stopLoss
       IN /\ (l >= 20) => sl = -15
          /\ (15 <= l /\ l < 20) => sl = -18
          /\ (10 <= l /\ l < 15) => sl = -22
          /\ (5 <= l /\ l < 10) => sl = -25
          /\ (l < 5) => sl = -30
          /\ last.args.shouldClose <=> (last.args.pnlPercent <= sl)

\* a position at leverage exactly 20 is closed at -15%
C20_Witness ==
  /\ last.op = "stop_loss" /\ last.args.leverage = 20
  /\ last.args.stopLoss = -15 /\ last.args.pnlPercent = -15 /\ last.args.shouldClose
\* C21 as stated: for leverages L1 <= L2 the stop-loss line of L2 is at or
\* below the line of L1 (the returned value does not increase with leverage).
C21_StopLossNonIncreasing ==
  (last.op = "cycle")
    => \A i, j \in DOMAIN last.forced.lines :
         last.forced.positions[i].leverage <= last.forced.positions[j].leverage
           => last.forced.lines[j] <= last.forced.lines[i]

\* C21 amended: for leverages L1 <= L2 the stop-loss line of L2 is at or
\* above the line of L1: the returned (negative) value does not decrease as
\* leverage increases, so the tolerated loss shrinks; this holds between the
\* positions of one cycle and against every leverage from 1 to 25.
C21_StopLossTightensWithLeverage ==
  (last.op = "cycle")
    => /\ \A i, j \in DOMAIN last.forced.lines :
            last.forced.positions[i].leverage <= last.forced.positions[j].leverage
              => last.forced.lines[j] >= last.forced.lines[i]
       /\ \A i \in DOMAIN last.forced.lines : \A l \in StopLossLeverages :
            /\ l >= last.forced.positions[i].leverage
                 => getDynamicStopLoss(l) >= last.forced.lines[i]
            /\ l <= last.forced.positions[i].leverage
                 => getDynamicStopLoss(l) <= last.forced.lines[i]
            /\ last.forced.lines[i] < 0

\* a cycle that looked at a 3x and a 10x position: lines -30 and -22
C21_Witness ==
  /\ last.op = "cycle" /\ Len(last.forced.lines) = 2
  /\ last.forced.positions[1].leverage = 3 /\ last.forced.lines[1] = -30
  /\ last.forced.positions[2].leverage = 10 /\ last.forced.lines[2] = -22
C23_CorrelationRisk ==
  (last.op = "correlation" /\ last.hit = {})
    => LET P == last.args.positions
           c == last.args.correlations
           sparse(k) == P[k].n1 < 30 \/ P[k].n2 < 30
       IN /\ last.anomaly.isAnomalous
               <=> \E k \in DOMAIN P : P[k].sameSide /\ (c[k] > 80 \/ c[k] < -80)
          /\ last.anomaly.isAnomalous => last.anomaly.severity = "medium"
          /\ P = << >> => ~last.anomaly.isAnomalous
          /\ \A k \in DOMAIN P : sparse(k) => c[k] = 0
          /\ \A k \in DOMAIN P : ~sparse(k) => c[k] = P[k].corr
          /\ (\A k \in DOMAIN P : sparse(k)) => ~last.anomaly.isAnomalous
          /\ ~last.raised

\* a same-side position whose prices correlate at 0.95 with the new symbol,
\* not flagged because the new symbol has only 29 stored rows
C23_Witness ==
  /\ last.op = "correlation" /\ last.hit = {} /\ ~last.anomaly.isAnomalous
  /\ Len(last.args.positions) = 1
  /\ last.args.positions[1].n1 = 29 /\ last.args.positions[1].corr = 95
  /\ last.args.positions[1].sameSide /\ last.args.correlations[1] = 0
\* C28: a detector whose query fails returns isAnomalous = false with
\* severity low and raises nothing; with the whole store failing,
\* comprehensiveRiskCheck returns approved = true with no blocker and no
\* warning whatever the notional and the leverage are.
C28_DetectorsFailOpen ==
  /\ (last.op = "risk")
       => /\ ("selRiskBalance" \in last.hit) => last.risk.position = NotAnomalous
          /\ ("selOpenCount" \in last.hit) => last.risk.frequency = NotAnomalous
          /\ ("selSignals" \in last.hit) => last.risk.correlation = NotAnomalous
          /\ (RiskOps \subseteq last.hit)
               => (last.risk.approved /\ last.risk.blockers = << >>
                     /\ last.risk.warnings = << >>)
          /\ ~last.raised
  /\ (last.op \in {"frequency", "correlation"} /\ last.hit # {})
       => (last.anomaly = NotAnomalous /\ ~last.raised)

\* the store is down: 60% of the balance at 18x, three opens within the
\* hour and a correlated same-side position are approved without a warning
C28_Witness ==
  /\ last.op = "risk" /\ StoreOps \cup RiskOps \subseteq last.hit
  /\ last.args.amount = 600 /\ last.args.leverage = 18 /\ last.args.openCount = 3
  /\ \E k \in DOMAIN last.args.positions :
       last.args.positions[k].sameSide /\ last.args.positions[k].corr > 80
  /\ last.risk.approved /\ last.risk.blockers = << >> /\ last.risk.warnings = << >>
\* C26 as stated: a check treats the system as in cooldown only within 6
\* hours after the moment the breaker that causes the cooldown stopped
\* halting, by auto-resume or by manual reset.
C26_CooldownSixHoursAfterStop ==
  [][(last'.op \in CheckOps /\ last'.path \in TriggerTypes \cup {"none"})
       => LET R == {i \in DOMAIN log' : /\ log'[i].status \in {"expired", "manually_reset"}
                                         /\ log'[i].cooldownUntil # Null}
              k == CHOOSE i \in R : \A j \in R : j <= i
              cool == R # {} /\ now < log'[k].cooldownUntil
          IN cool => (/\ stopped'.id = k
                      /\ stopped'.at <= now
                      /\ now < stopped'.at + 6 * 60)]_vars
\* C24: no record is ever deleted; a record changes in nothing but its
\* status, and only from active to expired or from active to manually_reset;
\* an expired or manually_reset record never changes again; a call that
\* starts a halt does so by inserting a new active record.
C24_RecordLifecycle ==
  [][/\ Len(log') >= Len(log)
     /\ \A i \in DOMAIN log :
          /\ [log'[i] EXCEPT !.status = log[i].status] = log[i]
          /\ log'[i].status # log[i].status
               => (log[i].status = "active"
                     /\ log'[i].status \in {"expired", "manually_reset"})
          /\ log[i].status \in {"expired", "manually_reset"} => log'[i] = log[i]
     /\ (last'.op = "cycle" /\ last'.ret.shouldHalt
           /\ last'.path \notin {"active", "bad_resume"})
          => (/\ Len(log') = Len(log) + 1
              /\ log'[Len(log')].status = "active"
              /\ log'[Len(log')].triggeredAt = now
              /\ ActiveIds(log') = {Len(log')})]_vars

\* the first record was auto-resumed; the system halts again through a
\* second record, and the first one is still there as expired
C24_Witness ==
  /\ last.op = "cycle" /\ last.ret.shouldHalt /\ last.path \in TriggerTypes
  /\ Len(log) >= 2 /\ log[Len(log)].status = "active"
  /\ \E i \in 1..(Len(log) - 1) :
       log[i].status = "expired" /\ log[i].resumeAt # BadTime /\ log[i].resumeAt <= now

\* C25: every record a trigger creates has cooldownUntil = resumeAt + 6
\* hours, and neither an auto-resume, a manual reset nor a later trigger
\* changes the resumeAt or the cooldownUntil of an existing record.
C25_CooldownUntilFixed ==
  [][\A i \in DOMAIN log' :
       IF i \in DOMAIN log
         THEN log'[i].cooldownUntil = log[i].cooldownUntil /\ log'[i].resumeAt = log[i].resumeAt
         ELSE /\ log'[i].triggerType \in TriggerTypes
              /\ log'[i].resumeAt > now
              /\ log'[i].cooldownUntil = log'[i].resumeAt + 6 * 60]_vars

\* a reset record and an auto-resumed record next to each other, each still
\* with its cooldownUntil 6 hours after its resumeAt
C25_Witness ==
  \E i, j \in DOMAIN log :
    /\ log[i].status = "manually_reset" /\ log[j].status = "expired"
    /\ log[i].triggerType \in TriggerTypes /\ log[j].triggerType \in TriggerTypes
    /\ log[i].cooldownUntil = log[i].resumeAt + 6 * 60
    /\ log[j].cooldownUntil = log[j].resumeAt + 6 * 60
    /\ log[i].resumeAt > now
\* C27 as stated: with the same cooldown state, a check at a higher
\* effective severity level uses a threshold multiplier no larger than a
\* check at level 1 (1.0 outside cooldown, 0.5 in cooldown: 2 and 1 in
\* halves), and at some level above 1 a strictly smaller one.
C27_SeverityTightensThresholds ==
  (last.context.level >= 1)
    => /\ last.context.multiplier
            <= severityThresholdMultiplier(last.context.inCooldown, 1)
       /\ \E s \in 2..MaxSeverity :
            severityThresholdMultiplier(last.context.inCooldown, s)
              < severityThresholdMultiplier(last.context.inCooldown, 1)
\* C29 as stated: in every trading cycle, each open position whose
\* leveraged pnl percent is at or below the stop-loss line of its leverage
\* is selected for forced close in that cycle, whatever the state of the
\* circuit breaker.
C29_StopLossAlwaysEnforced ==
  (last.op = "cycle")
    => \A k \in DOMAIN last.forced.positions :
         last.forced.positions[k].pnlPercent
             <= getDynamicStopLoss(last.forced.positions[k].leverage)
           => k \in last.forced.closed

\* C30 as stated: a cycle whose top-of-cycle breaker check failed (a store
\* statement failed and the check ended in its error handler) is skipped: it
\* runs no later stage and makes no trading decision.
C30_FailedCheckSkipsCycle ==
  (last.op = "cycle" /\ last.path = "error") => last.stages = {}

\* C31: every anomalous result of detectAnomalousPosition has severity
\* high; whenever the condition of the medium rule holds (leverage >= 15 and
\* notional above 30% of the balance) one of the two high rules has matched
\* before it, so in comprehensiveRiskCheck a position anomaly is always a
\* blocker and never a warning.
C31_PositionAnomalyAlwaysHigh ==
  (last.op = "risk")
    => LET pos == last.risk.position
           balance == IF account = Null THEN 1000 ELSE account
           rule3 == last.args.leverage >= 15 /\ 100 * last.args.amount > 30 * balance
       IN /\ pos.isAnomalous => pos.severity = "high"
          /\ pos.isAnomalous
               => /\ last.risk.blockers = <<pos.reason>>
                  /\ ~last.risk.approved
                  /\ \A k \in DOMAIN last.risk.warnings : last.risk.warnings[k] # pos.reason
          /\ (rule3 /\ "selRiskBalance" \notin last.hit)
               => pos.reason \in {"position_too_large", "exposure_too_large"}

\* balance 1000, notional 400 at leverage 15: 40% of the balance, so the
\* condition of the medium rule holds and the first rule does not match; the
\* exposure of 600% is reported high and blocks the order
C31_Witness ==
  /\ last.op = "risk" /\ "selRiskBalance" \notin last.hit /\ account = Null
  /\ last.args.amount = 400 /\ last.args.leverage = 15
  /\ last.risk.position.reason = "exposure_too_large"
  /\ last.risk.position.severity = "high"
  /\ last.risk.blockers = <<"exposure_too_large">>

\* C32 as stated: while the most recent breaker record has expired and no
\* close trade has been recorded since it was created, no call creates a
\* further breaker record.
C32_OneBreakerPerLoss ==
  [][(/\ log # << >>
      /\ log[Len(log)].status = "expired"
      /\ log[Len(log)].triggerType \in TriggerTypes
      /\ \A i \in DOMAIN trades : trades[i].ts <= log[Len(log)].triggeredAt
      /\ trades' = trades)
       => Len(log') = Len(log)]_vars

\* C33 as stated: the auto-resume statement of a call never sets a record
\* to 'expired' whose resumeAt is still in the future, also when the
\* statements of two calls interleave.
C33_AutoResumeExpiresOnlyDueRecord ==
  [][\A c \in Callers :
       (calls[c].pc = "updExpire" /\ calls'[c].pc = "selCooldown")
         => \A i \in DOMAIN log :
              (log[i].status = "active" /\ log'[i].status = "expired")
                => ~(log[i].resumeAt > now)]_vars

\* C35 as stated: a status query through GET /api/circuit-breaker and a call
\* of comprehensiveRiskCheck leave every circuit_breaker_log record
\* unchanged and create no new breaker record.
C35_QueriesDoNotWrite ==
  [][(last'.op \in {"status", "risk"}) => log' = log]_vars

\* C34: with the loop checking periodically and time advancing, and no
\* operator action, every active record with a parsable resumeAt is set to
\* 'expired' by the first check made at or after its resumeAt (a check at
\* such an instant leaves it 'expired'), and so, when its resumeAt falls
\* within the horizon, the table eventually holds no active record (records
\* never return to 'active').
C34_NoBreakerHaltsForever ==
  /\ [][\A i \in DOMAIN log :
         (/\ log[i].status = "active"
          /\ log[i].resumeAt \notin {Null, BadTime}
          /\ now >= log[i].resumeAt
          /\ last'.op \in CheckOps)
           => log'[i].status = "expired"]_vars
  /\ []((\E i \in ActiveIds(log) :
            log[i].resumeAt \notin {Null, BadTime} /\ log[i].resumeAt <= MaxResumeTime)
          => <>(ActiveIds(log) = {}))

\* a severity-3 breaker of four hours has been expired by the loop's check
\* at its resumeAt, with no reset anywhere in the table
C34_Witness ==
  /\ last.op = "cycle" /\ last.active = "expired"
  /\ stopped.id > 0 /\ stopped.at = now
  /\ log[stopped.id].status = "expired"
  /\ log[stopped.id].severityLevel = 3
  /\ log[stopped.id].resumeAt = now
  /\ \A i \in DOMAIN log : log[i].status # "manually_reset"

\* C36 as stated: no cycle starts its agent stage (the trading decision)
\* while an active breaker record with resumeAt in the future exists, also
\* when that cycle passed its own check before the breaker was triggered by
\* the check of a cycle started later.
C36_NoDecisionWhileHalted ==
  (last.op = "stage" /\ last.path = "agent")
    => \A i \in ActiveIds(log) : ~(log[i].resumeAt > now)

\* C37: an active record whose resume_at cannot be parsed is never
\* auto-expired: as long as no reset is made it stays active through every
\* step, and every check made meanwhile changes nothing and returns
\* shouldHalt = true with a resumeTime 2 hours after that check; only
\* resetCircuitBreaker ends it.
C37_UnparsableHaltsUntilReset ==
  [][\A i \in DOMAIN log :
       (log[i].status = "active" /\ log[i].resumeAt = BadTime)
         => /\ (last'.op # "reset") => log'[i].status = "active"
            /\ (last'.op = "reset") => log'[i].status = "manually_reset"
            /\ (last'.op \in CheckOps)
                 => /\ last'.ret.shouldHalt
                    /\ last'.ret.resumeTime = now' + 2 * Hour
                    /\ last'.ret.reason = log[i].reason
                    /\ last'.stages = {}
                    /\ log' = log]_vars

\* four hours of checks later the record is still active and the check
\* promises a resume time two hours ahead once more; no record has ever
\* left the active status
C37_Witness ==
  /\ last.op \in CheckOps /\ now >= 4 * Hour
  /\ last.ret.shouldHalt /\ last.ret.resumeTime = now + 2 * Hour
  /\ stopped = NoStop
  /\ \E i \in ActiveIds(log) : log[i].resumeAt = BadTime /\ log[i].triggeredAt = 0

\* the statements of recordCircuitBreaker
RecordOps == {"schemaCheck", "updDemote", "insInsert"}

\* C38: a call of a single caller in which no statement fails and which
\* returns shouldHalt = true leaves exactly one active record, whose
\* severity level is the returned one; a call in which a trigger condition
\* is breached and the recording of the new breaker fails (its demote or
\* its insert) returns shouldHalt = false and leaves no record active.
C38_HaltMatchesActiveRecord ==
  /\ (last.op \in CheckOps /\ last.hit = {} /\ last.ret.shouldHalt)
       => /\ Cardinality(ActiveIds(log)) = 1
          /\ \A i \in ActiveIds(log) : last.ret.severityLevel = log[i].severityLevel
  /\ (/\ last.op \in CheckOps
      /\ last.hit \cap {"updDemote", "insInsert"} # {}
      /\ last.hit \subseteq RecordOps)
       => (~last.ret.shouldHalt /\ ActiveIds(log) = {})

\* the breaker of two hours has run out, the next check expires it, finds
\* the loss still over the threshold, and its INSERT fails: the call
\* reports no halt, no record is active and the cycle goes on to the agent
C38_Witness ==
  /\ last.op = "cycle" /\ last.hit = {"insInsert"} /\ last.path = "error"
  /\ ~last.ret.shouldHalt /\ ActiveIds(log) = {}
  /\ stopped.id > 0 /\ stopped.at = now
  /\ "agent" \in last.stages

\* C39 as stated: when at least 2 records were triggered within the last 24
\* hours, the severity level given to a new breaker is at least the maximum
\* severity level among those records.
C39_SeverityNeverDeescalates ==
  [][(last'.op = "cycle" /\ Len(log') = Len(log) + 1)
       => LET S == {i \in DOMAIN log : log[i].triggeredAt >= now - 24 * Hour} IN
          Cardinality(S) >= 2
            => \A i \in S : log'[Len(log')].severityLevel >= log[i].severityLevel]_vars
====
